---- MODULE Spec2Model ----
(***************************************************************************)
(* A model of the marker lint framework: the lint crate loader and         *)
(* registry (linter_adapter/src/loader.rs), the dispatch of callbacks over *)
(* the items of a crate (linter_adapter/src/lib.rs) and the conversion of  *)
(* rustc items into API items with its ID-keyed cache                      *)
(* (marker_rustc_driver/src/conversion/marker/ast/item.rs).                *)
(***************************************************************************)
EXTENDS Integers, Sequences, FiniteSets, TLC

VARIABLES
    pc,                   \* where the adapter is: "start", "ready", "process", "done",
                          \* "init_panic" (new_from_env panicked), "panicked" (a panic left process_krate)
    env,                  \* the environment value LINTER_LINT_CRATES: [set, val]
    lint_passes,          \* ExternalLintCrateRegistry::lint_passes
    invalid_lint_passes,  \* ExternalLintCrateRegistry::invalid_lint_passes
    libs,                 \* ExternalLintCrateRegistry::_libs
    loadLog,              \* history: one record per call of load_external_lib
    registerCalls,        \* history: the paths whose `register` entry point was run
    diag,                 \* the panic message of new_from_env, <<>> when there is none
    hirItems,             \* the rustc items of the crate, in declaration order
    hirBodies,            \* the hir::Body values of the crate: [coroutine_kind]
    items,                \* Crate::get_items(): the converted items
    cursor,               \* position of process_krate: [i, stage, k]
    calls,                \* history: callbacks process_krate issued to the registry
    trace,                \* history: callbacks delivered to lint passes
    converter,            \* MarkerConverterInner: [items, bodies, fields, variants, arena]
    returned,             \* history: the pairs << id, node >> the conversion returned
    last,                 \* history: the last call of the conversion
    debug_assertions,     \* whether the driver was built with debug assertions
    session,              \* the number of the conversion session, 0 when there is none
    input,                \* the argument of the function a specification applies
    output,               \* what the function returned for it
    token_stream          \* a MacroTokenStream: [string_repr, proc_macro2_repr]

vars == << pc, env, lint_passes, invalid_lint_passes, libs, loadLog, registerCalls,
           diag, hirItems, hirBodies, items, cursor, calls, trace, converter, returned,
           last, debug_assertions, session, input, output, token_stream >>

convVars == << converter, returned, last >>

(***************************************************************************)
(* Bounds of the model.                                                    *)
(***************************************************************************)
MaxEnvLen == 3
MaxItems == 2
MaxSub == 2
MaxBodies == 2
MaxArena == 8
MaxSessions == 2
MaxArgs == 2
MaxBindings == 1
MaxTokLen == 4
MaxCalls == 3
MaxDepth == 2
MaxPathLen == 2
MaxCrates == 2
MaxNameLen == 2
MaxArgv == 3
MaxPasses == 3
MaxBounds == 2

AttrCounts == {0, 2}

(***************************************************************************)
(* Generic helpers.                                                        *)
(***************************************************************************)
RECURSIVE SeqsUpTo(_, _)
SeqsUpTo(S, n) ==
    IF n = 0 THEN { <<>> }
    ELSE LET shorter == SeqsUpTo(S, n - 1)
         IN  shorter \cup { Append(s, x) : s \in { t \in shorter : Len(t) = n - 1 }, x \in S }

IsPrefix(s, t) == Len(s) <= Len(t) /\ SubSeq(t, 1, Len(s)) = s

Range(s) == { s[i] : i \in 1..Len(s) }

(***************************************************************************)
(* The plugin ABI: linter_api/src/interface.rs.                            *)
(***************************************************************************)
LINTER_API_VERSION == "api-host"
RUSTC_VERSION == "rustc-host"

\* What export_lint_pass! puts into a lint crate built against the given
\* versions: the declaration with the two version strings.
export_lint_pass(api, rustc) ==
    [linter_api_version |-> api, rustc_version |-> rustc]

\* The shared libraries on disk. Path "a", "f" and "g" are lint crates built
\* with the host's versions, "o" was built against another API version, "r"
\* with another rustc, "n" is a library without the declaration symbol. No
\* other path (the empty path included) can be opened.
PathChars == {"a", "f", "g", "o", "r", "n"}
Delim == ";"

Library_new(lib_path) ==
    IF Len(lib_path) = 1 /\ lib_path[1] \in PathChars
    THEN [opens |-> TRUE, file |-> lib_path[1]]
    ELSE [opens |-> FALSE, file |-> ""]

Library_get(lib) ==
    CASE lib.file \in {"a", "f", "g"} ->
            [found |-> TRUE, decl |-> export_lint_pass(LINTER_API_VERSION, RUSTC_VERSION)]
      [] lib.file = "o" ->
            [found |-> TRUE, decl |-> export_lint_pass("api-old", RUSTC_VERSION)]
      [] lib.file = "r" ->
            [found |-> TRUE, decl |-> export_lint_pass(LINTER_API_VERSION, "rustc-old")]
      [] OTHER ->
            [found |-> FALSE, decl |-> export_lint_pass("", "")]

\* LintPassRegistry::register: the pass is pushed to the end of lint_passes.
\* A pass is identified by the library it comes from and by the number of
\* passes held before it (every Box is a new object).
register(self, file) ==
    [self EXCEPT !.lint_passes =
        Append(@, [lib |-> file, n |-> Len(self.lint_passes) + Len(self.invalid_lint_passes) + 1])]

\* load_external_lib with the two version comparisons joined by `&&`: a
\* library that differs in one version only is registered.
load_external_lib_both_versions(self, lib_path) ==
    LET lib == Library_new(lib_path)
        sym == Library_get(lib)
    IN  IF ~lib.opens
        THEN [self |-> self, result |-> "FileNotFound", registerRun |-> FALSE]
        ELSE IF ~sym.found
        THEN [self |-> self, result |-> "MissingLintDeclaration", registerRun |-> FALSE]
        ELSE IF sym.decl.linter_api_version # LINTER_API_VERSION
                /\ sym.decl.rustc_version # RUSTC_VERSION
        THEN [self |-> self, result |-> "IncompatibleVersion", registerRun |-> FALSE]
        ELSE [self |-> [register(self, lib.file) EXCEPT !.libs = Append(@, lib.file)],
              result |-> "Ok", registerRun |-> TRUE]

\* load_external_lib with the errors of the two map_err exchanged.
load_external_lib_errors_swapped(self, lib_path) ==
    LET lib == Library_new(lib_path)
        sym == Library_get(lib)
    IN  IF ~lib.opens
        THEN [self |-> self, result |-> "MissingLintDeclaration", registerRun |-> FALSE]
        ELSE IF ~sym.found
        THEN [self |-> self, result |-> "FileNotFound", registerRun |-> FALSE]
        ELSE IF sym.decl.linter_api_version # LINTER_API_VERSION
                \/ sym.decl.rustc_version # RUSTC_VERSION
        THEN [self |-> self, result |-> "IncompatibleVersion", registerRun |-> FALSE]
        ELSE [self |-> [register(self, lib.file) EXCEPT !.libs = Append(@, lib.file)],
              result |-> "Ok", registerRun |-> TRUE]

\* load_external_lib without `self._libs.push(lib)`: the library is dropped
\* at the end of the call.
load_external_lib_drops_lib(self, lib_path) ==
    LET lib == Library_new(lib_path)
        sym == Library_get(lib)
    IN  IF ~lib.opens
        THEN [self |-> self, result |-> "FileNotFound", registerRun |-> FALSE]
        ELSE IF ~sym.found
        THEN [self |-> self, result |-> "MissingLintDeclaration", registerRun |-> FALSE]
        ELSE IF sym.decl.linter_api_version # LINTER_API_VERSION
                \/ sym.decl.rustc_version # RUSTC_VERSION
        THEN [self |-> self, result |-> "IncompatibleVersion", registerRun |-> FALSE]
        ELSE [self |-> register(self, lib.file), result |-> "Ok", registerRun |-> TRUE]

\* load_external_lib with decl.register run before the versions are
\* compared.
load_external_lib_registers_first(self, lib_path) ==
    LET lib == Library_new(lib_path)
        sym == Library_get(lib)
    IN  IF ~lib.opens
        THEN [self |-> self, result |-> "FileNotFound", registerRun |-> FALSE]
        ELSE IF ~sym.found
        THEN [self |-> self, result |-> "MissingLintDeclaration", registerRun |-> FALSE]
        ELSE IF sym.decl.linter_api_version # LINTER_API_VERSION
                \/ sym.decl.rustc_version # RUSTC_VERSION
        THEN [self |-> register(self, lib.file), result |-> "IncompatibleVersion",
              registerRun |-> FALSE]
        ELSE [self |-> [register(self, lib.file) EXCEPT !.libs = Append(@, lib.file)],
              result |-> "Ok", registerRun |-> TRUE]

\* ExternalLintCrateRegistry::load_external_lib. self is the registry
\* [lint_passes, invalid_lint_passes, libs]; the result holds the registry
\* after the call, the Result and whether decl.register was called.
load_external_lib(self, lib_path) ==
    LET lib == Library_new(lib_path)
        sym == Library_get(lib)
    IN  IF ~lib.opens
        THEN [self |-> self, result |-> "FileNotFound", registerRun |-> FALSE]
        ELSE IF ~sym.found
        THEN [self |-> self, result |-> "MissingLintDeclaration", registerRun |-> FALSE]
        ELSE IF sym.decl.linter_api_version # LINTER_API_VERSION
                \/ sym.decl.rustc_version # RUSTC_VERSION
        THEN [self |-> self, result |-> "IncompatibleVersion", registerRun |-> FALSE]
        ELSE [self |-> [register(self, lib.file) EXCEPT !.libs = Append(@, lib.file)],
              result |-> "Ok", registerRun |-> TRUE]

\* str::split(';'): the segments between the delimiters; the empty string
\* has one (empty) segment.
RECURSIVE split(_)
split(s) ==
    IF \E i \in 1..Len(s) : s[i] = Delim
    THEN LET i == CHOOSE j \in 1..Len(s) : s[j] = Delim /\ \A h \in 1..(j - 1) : s[h] # Delim
         IN  << SubSeq(s, 1, i - 1) >> \o split(SubSeq(s, i + 1, Len(s)))
    ELSE << s >>

RECURSIVE load_all(_, _)

\* The loop of new_from_env with a failing path skipped instead of panicking.
load_all_skip_failed(st, paths) ==
    IF paths = <<>> THEN st
    ELSE LET lint_crate == Head(paths)
             r == load_external_lib(st.self, lint_crate)
             log == Append(st.log, [path |-> lint_crate, result |-> r.result,
                                    before |-> st.self, after |-> r.self])
             reg == IF r.registerRun THEN Append(st.reg, lint_crate) ELSE st.reg
         IN  load_all([st EXCEPT !.self = r.self, !.log = log, !.reg = reg], Tail(paths))

\* The loop of new_from_env over the paths: every path is loaded in turn,
\* the first error panics. st = [self, log, reg, diag, panicked].
load_all(st, paths) ==
    IF paths = <<>> THEN st
    ELSE LET lint_crate == Head(paths)
             r == load_external_lib(st.self, lint_crate)
             log == Append(st.log, [path |-> lint_crate, result |-> r.result,
                                    before |-> st.self, after |-> r.self])
             reg == IF r.registerRun THEN Append(st.reg, lint_crate) ELSE st.reg
         IN  IF r.result # "Ok"
             THEN [self |-> r.self, log |-> log, reg |-> reg,
                   diag |-> << lint_crate, r.result >>, panicked |-> TRUE]
             ELSE load_all([st EXCEPT !.self = r.self, !.log = log, !.reg = reg], Tail(paths))

EmptyRegistry == [lint_passes |-> <<>>, invalid_lint_passes |-> <<>>, libs |-> <<>>]

\* ExternalLintCrateRegistry::new_from_env (and Adapter::new_from_env, which
\* wraps the registry it returns).
new_from_env ==
    /\ pc = "start"
    /\ LET paths == IF env.set THEN split(env.val) ELSE <<>>
           st == load_all([self |-> EmptyRegistry, log |-> <<>>, reg |-> <<>>,
                           diag |-> <<>>, panicked |-> FALSE], paths)
       IN  /\ loadLog' = st.log
           /\ registerCalls' = st.reg
           /\ diag' = st.diag
           /\ IF st.panicked
              THEN /\ pc' = "init_panic"
                   /\ UNCHANGED << lint_passes, invalid_lint_passes, libs >>
              ELSE /\ pc' = "ready"
                   /\ lint_passes' = st.self.lint_passes
                   /\ invalid_lint_passes' = st.self.invalid_lint_passes
                   /\ libs' = st.self.libs
    /\ UNCHANGED << env, hirItems, hirBodies, items, cursor, calls, trace, convVars,
                    debug_assertions, session, input, output, token_stream >>

(***************************************************************************)
(* The conversion of rustc items:                                          *)
(* marker_rustc_driver/src/conversion/marker/ast/item.rs.                  *)
(*                                                                         *)
(* A rustc item is [kind, detail, ctxt, attrs, sub]: the variant of        *)
(* hir::ItemKind (hir::TraitItemKind, hir::ImplItemKind,                   *)
(* hir::ForeignItemKind for the items of a trait, an impl, an extern       *)
(* block), what the conversion reads of its payload and of its name, the   *)
(* syntax context of its span, the number of attributes and the items it   *)
(* contains. The                                                           *)
(* owner id of an item is its position in the crate: << i >> for the i-th  *)
(* top-level item, Append(p, j) for the j-th item inside the item p.       *)
(*                                                                         *)
(* The converter state cx is [items, bodies, fields, variants, arena]: the *)
(* caches of MarkerConverterInner and the nodes allocated in the 'ast      *)
(* arena. A reference to a node is its index in the arena.                 *)
(***************************************************************************)
\* span.ctxt(): whether it is the root context, and the kind of the outer
\* expansion.
RootCtxt == [is_root |-> TRUE, expn_kind |-> "Root"]
AstPassCtxt == [is_root |-> FALSE, expn_kind |-> "AstPass"]
MacroCtxt == [is_root |-> FALSE, expn_kind |-> "Macro"]
DesugaringCtxt == [is_root |-> FALSE, expn_kind |-> "Desugaring"]
Ctxts == {RootCtxt, AstPassCtxt, MacroCtxt, DesugaringCtxt}

\* The name of the function that makes a debug build of the driver panic.
IceName == "rustc_driver_please_ice_on_this"

to_item_id(owner_id) == << "ItemId", owner_id >>

to_body_id(hir_id) == << "BodyId", hir_id >>

to_expr_id(hir_id) == << "ExprId", hir_id >>

to_field_id(hir_id) == << "FieldId", hir_id >>

to_variant_id(def_id) == << "VariantId", def_id >>

EmptyCx == [items |-> << >>, bodies |-> << >>, fields |-> << >>, variants |-> << >>,
            arena |-> << >>]

NoItem == [tag |-> "", ref |-> 0]
None == [some |-> FALSE, item |-> NoItem]
Some(item) == [some |-> TRUE, item |-> item]

\* A cache that is never hit.
cache_get_never(cache, id) == None

\* self.items.borrow().get(&id)
cache_get(cache, id) ==
    IF id \in DOMAIN cache THEN Some(cache[id]) ELSE None

\* An insert that empties the map first.
cache_insert_alone(cache, id, item) == [x \in {id} |-> item]

\* self.items.borrow_mut().insert(id, item)
cache_insert(cache, id, item) ==
    [x \in DOMAIN cache \cup {id} |-> IF x = id THEN item ELSE cache[x]]

\* self.alloc(node): the node is placed at the end of the arena.
alloc(cx, node) == [cx EXCEPT !.arena = Append(@, node)]

\* MarkerConverterInner::is_compiler_generated
is_compiler_generated(ctxt) == ~ctxt.is_root /\ ctxt.expn_kind = "AstPass"

Returned(cx, ret) == [cx |-> cx, ret |-> ret, panicked |-> FALSE]
Panicked(cx) == [cx |-> cx, ret |-> None, panicked |-> TRUE]

\* The end of to_item, to_external_item, to_assoc_item and
\* to_assoc_item_from_impl: the node is allocated, the item is inserted into
\* the cache under its id and returned.
alloc_and_insert(cx, id, tag, reason) ==
    LET cx1 == alloc(cx, [id |-> id, kind |-> tag, reason |-> reason])
        item == [tag |-> tag, ref |-> Len(cx1.arena)]
    IN  Returned([cx1 EXCEPT !.items = cache_insert(@, id, item)], Some(item))

\* MarkerConverterInner::to_fields: a node per field, every one inserted
\* into the cache of the fields under its id.
RECURSIVE to_fields_loop(_, _, _, _)
to_fields_loop(cx, prefix, fields, i) ==
    IF i > Len(fields) THEN cx
    ELSE LET id == to_field_id(Append(prefix, i))
             cx1 == alloc(cx, [id |-> id, kind |-> "Field", reason |-> ""])
         IN  to_fields_loop([cx1 EXCEPT !.fields = cache_insert(@, id, Len(cx1.arena))],
                            prefix, fields, i + 1)

to_fields(cx, prefix, fields) == to_fields_loop(cx, prefix, fields, 1)

\* MarkerConverterInner::to_adt_kind: the fields of a struct, of a union or
\* of an enum variant are converted; a unit has none.
to_adt_kind(cx, prefix, var_data) == to_fields(cx, prefix, var_data)

\* The Enum arm of to_item: a node per variant (its fields converted with
\* it), every one inserted into the cache of the variants under its id.
RECURSIVE to_variants_loop(_, _, _, _)
to_variants_loop(cx, prefix, variants, i) ==
    IF i > Len(variants) THEN cx
    ELSE LET id == to_variant_id(Append(prefix, i))
             cx1 == to_adt_kind(cx, Append(prefix, i), variants[i].sub)
             cx2 == alloc(cx1, [id |-> id, kind |-> "EnumVariant", reason |-> ""])
         IN  to_variants_loop([cx2 EXCEPT !.variants = cache_insert(@, id, Len(cx2.arena))],
                              prefix, variants, i + 1)

to_variants(cx, prefix, variants) == to_variants_loop(cx, prefix, variants, 1)

RECURSIVE to_item(_, _, _)
RECURSIVE to_items_loop(_, _, _, _, _)
RECURSIVE to_external_items_loop(_, _, _, _)
RECURSIVE to_assoc_items_loop(_, _, _, _)
RECURSIVE to_assoc_items_from_impl_loop(_, _, _, _)

\* to_items with the converted items collected in reverse.
to_items_loop_reversed(cx, prefix, rustc_items, i, acc) ==
    IF i > Len(rustc_items) THEN [cx |-> cx, ret |-> acc, panicked |-> FALSE]
    ELSE LET r == to_item(cx, Append(prefix, i), rustc_items[i])
         IN  IF r.panicked THEN [cx |-> r.cx, ret |-> acc, panicked |-> TRUE]
             ELSE to_items_loop(r.cx, prefix, rustc_items, i + 1,
                                IF r.ret.some THEN << r.ret.item >> \o acc ELSE acc)

\* MarkerConverterInner::to_items: the items are converted in the order of
\* the slice, the ones to_item returns None for are left out.
to_items_loop(cx, prefix, rustc_items, i, acc) ==
    IF i > Len(rustc_items) THEN [cx |-> cx, ret |-> acc, panicked |-> FALSE]
    ELSE LET r == to_item(cx, Append(prefix, i), rustc_items[i])
         IN  IF r.panicked THEN [cx |-> r.cx, ret |-> acc, panicked |-> TRUE]
             ELSE to_items_loop(r.cx, prefix, rustc_items, i + 1,
                                IF r.ret.some THEN Append(acc, r.ret.item) ELSE acc)

to_items(cx, prefix, rustc_items) == to_items_loop(cx, prefix, rustc_items, 1, << >>)

\* MarkerConverterInner::to_external_item
to_external_item(cx, owner_id, rustc_item) ==
    LET id == to_item_id(owner_id)
        hit == cache_get(cx.items, id)
    IN  IF hit.some
        THEN IF hit.item.tag \in {"Static", "Fn"}
             THEN Returned(cx, hit)
             ELSE Panicked(cx)   \* unreachable!
        ELSE CASE rustc_item.kind = "Fn" -> alloc_and_insert(cx, id, "Fn", "")
               [] rustc_item.kind = "Static" -> alloc_and_insert(cx, id, "Static", "")
               [] OTHER -> Panicked(cx)   \* ForeignItemKind::Type: todo!

to_external_items_loop(cx, prefix, rustc_items, i) ==
    IF i > Len(rustc_items) THEN Returned(cx, None)
    ELSE LET r == to_external_item(cx, Append(prefix, i), rustc_items[i])
         IN  IF r.panicked THEN r
             ELSE to_external_items_loop(r.cx, prefix, rustc_items, i + 1)

to_external_items(cx, prefix, rustc_items) == to_external_items_loop(cx, prefix, rustc_items, 1)

\* MarkerConverterInner::to_assoc_item
to_assoc_item(cx, owner_id, rustc_item) ==
    LET id == to_item_id(owner_id)
        hit == cache_get(cx.items, id)
    IN  IF hit.some
        THEN IF hit.item.tag \in {"TyAlias", "Const", "Fn"}
             THEN Returned(cx, hit)
             ELSE Panicked(cx)   \* unreachable!
        ELSE CASE rustc_item.kind = "Const" -> alloc_and_insert(cx, id, "Const", "")
               [] rustc_item.kind = "Fn" -> alloc_and_insert(cx, id, "Fn", "")
               [] rustc_item.kind = "Type" -> alloc_and_insert(cx, id, "TyAlias", "")

to_assoc_items_loop(cx, prefix, rustc_items, i) ==
    IF i > Len(rustc_items) THEN Returned(cx, None)
    ELSE LET r == to_assoc_item(cx, Append(prefix, i), rustc_items[i])
         IN  IF r.panicked THEN r
             ELSE to_assoc_items_loop(r.cx, prefix, rustc_items, i + 1)

to_assoc_items(cx, prefix, rustc_items) == to_assoc_items_loop(cx, prefix, rustc_items, 1)

\* MarkerConverterInner::to_assoc_item_from_impl
to_assoc_item_from_impl(cx, owner_id, rustc_item) ==
    LET id == to_item_id(owner_id)
        hit == cache_get(cx.items, id)
    IN  IF hit.some
        THEN IF hit.item.tag \in {"TyAlias", "Const", "Fn"}
             THEN Returned(cx, hit)
             ELSE Panicked(cx)   \* unreachable!
        ELSE CASE rustc_item.kind = "Const" -> alloc_and_insert(cx, id, "Const", "")
               [] rustc_item.kind = "Fn" -> alloc_and_insert(cx, id, "Fn", "")
               [] rustc_item.kind = "Type" -> alloc_and_insert(cx, id, "TyAlias", "")

to_assoc_items_from_impl_loop(cx, prefix, rustc_items, i) ==
    IF i > Len(rustc_items) THEN Returned(cx, None)
    ELSE LET r == to_assoc_item_from_impl(cx, Append(prefix, i), rustc_items[i])
         IN  IF r.panicked THEN r
             ELSE to_assoc_items_from_impl_loop(r.cx, prefix, rustc_items, i + 1)

to_assoc_items_from_impl(cx, prefix, rustc_items) ==
    to_assoc_items_from_impl_loop(cx, prefix, rustc_items, 1)

\* MarkerConverterInner::to_item
to_item(cx, owner_id, rustc_item) ==
    LET id == to_item_id(owner_id)
        hit == cache_get(cx.items, id)
        kind == rustc_item.kind
    IN  IF hit.some THEN Returned(cx, hit)
        ELSE IF is_compiler_generated(rustc_item.ctxt) THEN Returned(cx, None)
        ELSE CASE kind = "ExternCrate" -> alloc_and_insert(cx, id, "ExternCrate", "")
               [] kind = "Use" ->
                    IF rustc_item.detail = "ListStem" THEN Returned(cx, None)
                    ELSE alloc_and_insert(cx, id, "Use", "")
               [] kind = "Fn" ->
                    IF debug_assertions /\ rustc_item.detail = IceName
                    THEN Panicked(cx)
                    ELSE alloc_and_insert(cx, id, "Fn", "")
               [] kind \in {"Static", "Const", "TyAlias"} -> alloc_and_insert(cx, id, kind, "")
               [] kind = "Enum" ->
                    alloc_and_insert(to_variants(cx, owner_id, rustc_item.sub), id, "Enum", "")
               [] kind \in {"Struct", "Union"} ->
                    alloc_and_insert(to_adt_kind(cx, owner_id, rustc_item.sub), id, kind, "")
               [] kind = "Mod" ->
                    LET r == to_items(cx, owner_id, rustc_item.sub)
                    IN  IF r.panicked THEN Panicked(r.cx)
                        ELSE alloc_and_insert(r.cx, id, "Mod", "")
               [] kind = "ForeignMod" ->
                    LET r == to_external_items(cx, owner_id, rustc_item.sub)
                    IN  IF r.panicked THEN Panicked(r.cx)
                        ELSE alloc_and_insert(r.cx, id, "ExternBlock", "")
               [] kind \in {"Macro", "GlobalAsm"} -> Returned(cx, None)
               [] kind = "OpaqueTy" -> alloc_and_insert(cx, id, "Unstable", "type_alias_impl_trait")
               [] kind = "Trait" ->
                    LET r == to_assoc_items(cx, owner_id, rustc_item.sub)
                    IN  IF r.panicked THEN Panicked(r.cx)
                        ELSE alloc_and_insert(r.cx, id, "Trait", "")
               [] kind = "TraitAlias" -> alloc_and_insert(cx, id, "Unstable", "trait_alias")
               [] kind = "Impl" ->
                    LET r == to_assoc_items_from_impl(cx, owner_id, rustc_item.sub)
                    IN  IF r.panicked THEN Panicked(r.cx)
                        ELSE alloc_and_insert(r.cx, id, "Impl", "")

\* self.to_expr(body.value): the expression of the body is converted into
\* a node of the arena.
to_expr(cx, hir_id) == alloc(cx, [id |-> to_expr_id(hir_id), kind |-> "Expr", reason |-> ""])

\* MarkerConverterInner::to_body. hir_id is body.id(), body is
\* [coroutine_kind]; the result refers to the Body node.
to_body(cx, hir_id, body) ==
    LET id == to_body_id(hir_id)
        hit == cache_get(cx.bodies, id)
    IN  IF hit.some THEN Returned(cx, hit)
        ELSE IF body.coroutine_kind = "Coroutine"
        THEN LET cx1 == alloc(cx, [id |-> to_expr_id(hir_id), kind |-> "UnstableExpr",
                                   reason |-> "Unstable"])
                 cx2 == alloc(cx1, [id |-> id, kind |-> "Body", reason |-> ""])
             IN  Returned(cx2, Some([tag |-> "Body", ref |-> Len(cx2.arena)]))
        ELSE LET cx1 == to_expr(cx, hir_id)
                 cx2 == alloc(cx1, [id |-> id, kind |-> "Body", reason |-> ""])
                 api_body == [tag |-> "Body", ref |-> Len(cx2.arena)]
             IN  Returned([cx2 EXCEPT !.bodies = cache_insert(@, id, api_body)], Some(api_body))

(***************************************************************************)
(* The dispatch of callbacks: linter_adapter/src/lib.rs and the LintPass   *)
(* implementation of the registry in linter_adapter/src/loader.rs.         *)
(***************************************************************************)
Leaf(kind, detail, ctxt, attrs) ==
    [kind |-> kind, detail |-> detail, ctxt |-> ctxt, attrs |-> attrs, sub |-> << >>]

\* The rustc items the crates given to process_krate are made of.
DispatchItems ==
    { Leaf(k, "", RootCtxt, n) : k \in {"Mod", "ExternCrate", "Static", "Fn"}, n \in AttrCounts }
    \cup { Leaf("Use", "Single", RootCtxt, n) : n \in AttrCounts }
    \cup { Leaf("Fn", "", AstPassCtxt, 0), Leaf("Macro", "", RootCtxt, 0) }

\* The code of the lint passes is not part of the repository. The pass of
\* lint crate "a" never panics, the one of "f" panics in check_item on a
\* function, the one of "g" panics in check_mod.
pass_panics(pass, cb, item) ==
    \/ pass.lib = "f" /\ cb = "check_item" /\ item.tag = "Fn"
    \/ pass.lib = "g" /\ cb = "check_mod"

\* item.get_attrs(): the attributes of the rustc item the node was made from.
get_attrs(krate, item) ==
    LET owner_id == krate.cx.arena[item.ref].id[2]
    IN  krate.hir[owner_id[1]].attrs

\* `for lint_pass in self.lint_passes.iter_mut() { lint_pass.<cb>(cx, item) }`:
\* the passes are called in the order of the list; a panic of a pass ends
\* the loop and unwinds.
RECURSIVE for_lint_passes(_, _, _, _)
for_lint_passes(passes, cb, item, acc) ==
    IF passes = << >> THEN [delivered |-> acc, panicked |-> FALSE]
    ELSE LET lint_pass == Head(passes)
             entry == [cb |-> cb, pass |-> lint_pass.n, item |-> item.ref]
         IN  IF pass_panics(lint_pass, cb, item)
             THEN [delivered |-> Append(acc, entry), panicked |-> TRUE]
             ELSE for_lint_passes(Tail(passes), cb, item, Append(acc, entry))

\* The kind-specific callback process_krate selects by the `match item`.
kind_callback(item) ==
    CASE item.tag = "Mod" -> "check_mod"
      [] item.tag = "ExternCrate" -> "check_extern_crate"
      [] item.tag = "Use" -> "check_use_decl"
      [] item.tag = "Static" -> "check_static_item"
      [] OTHER -> "none"

\* The statement of process_krate that follows position c, with the loops
\* that have nothing (more) to do passed over. krate is [hir, cx, items].
RECURSIVE advance(_, _)
advance(krate, c) ==
    IF c.i > Len(krate.items) THEN [i |-> Len(krate.items) + 1, stage |-> "end", k |-> 0]
    ELSE CASE c.stage = "attr" ->
                IF c.k <= get_attrs(krate, krate.items[c.i]) THEN c
                ELSE [i |-> c.i, stage |-> "item", k |-> 0]
           [] c.stage = "item" -> c
           [] c.stage = "kind" ->
                IF kind_callback(krate.items[c.i]) # "none" THEN c
                ELSE advance(krate, [i |-> c.i + 1, stage |-> "attr", k |-> 1])

\* The position after the callback at position c has returned.
after(c) ==
    CASE c.stage = "attr" -> [c EXCEPT !.k = @ + 1]
      [] c.stage = "item" -> [c EXCEPT !.stage = "kind"]
      [] c.stage = "kind" -> [i |-> c.i + 1, stage |-> "attr", k |-> 1]

current == items[cursor.i]

the_krate == [hir |-> hirItems, cx |-> converter, items |-> items]

step_done ==
    LET c == advance(the_krate, after(cursor))
    IN  /\ cursor' = c
        /\ pc' = IF c.stage = "end" THEN "done" ELSE "process"

\* Adapter::process_krate is entered with the crate the driver converted.
process_krate ==
    /\ pc = "ready"
    /\ \E hir \in SeqsUpTo(DispatchItems, MaxItems) :
          LET r == to_items(EmptyCx, << >>, hir)
              c == advance([hir |-> hir, cx |-> r.cx, items |-> r.ret],
                           [i |-> 1, stage |-> "attr", k |-> 1])
          IN  /\ hirItems' = hir
              /\ converter' = r.cx
              /\ items' = r.ret
              /\ cursor' = c
              /\ pc' = IF c.stage = "end" THEN "done" ELSE "process"
    /\ UNCHANGED << env, lint_passes, invalid_lint_passes, libs, loadLog, registerCalls,
                    diag, hirBodies, calls, trace, returned, last, debug_assertions, session, input, output, token_stream >>

\* A callback the registry does not override: the default method of LintPass
\* runs, which has no access to lint_passes; no pass is called.
default_callback(cb, item) == [delivered |-> << >>, panicked |-> FALSE]

\* A callback of `impl LintPass for ExternalLintCrateRegistry`.
registry_callback(cb, item) ==
    IF cb \in {"check_item", "check_mod", "check_extern_crate", "check_use_decl"}
    THEN for_lint_passes(lint_passes, cb, item, << >>)
    ELSE default_callback(cb, item)

callback(cb) ==
    /\ pc = "process"
    /\ calls' = Append(calls, [cb |-> cb, item |-> current.ref, k |-> cursor.k])
    /\ LET r == registry_callback(cb, current)
       IN  /\ trace' = trace \o r.delivered
           /\ IF r.panicked
              THEN pc' = "panicked" /\ UNCHANGED cursor
              ELSE step_done
    /\ UNCHANGED << env, lint_passes, invalid_lint_passes, libs, loadLog, registerCalls,
                    diag, hirItems, hirBodies, items, convVars, debug_assertions, session, input, output, token_stream >>

check_attr == cursor.stage = "attr" /\ callback("check_attr")

check_item == cursor.stage = "item" /\ callback("check_item")

check_mod ==
    cursor.stage = "kind" /\ kind_callback(current) = "check_mod" /\ callback("check_mod")

check_extern_crate ==
    /\ cursor.stage = "kind" /\ kind_callback(current) = "check_extern_crate"
    /\ callback("check_extern_crate")

check_use_decl ==
    /\ cursor.stage = "kind" /\ kind_callback(current) = "check_use_decl"
    /\ callback("check_use_decl")

check_static_item ==
    /\ cursor.stage = "kind" /\ kind_callback(current) = "check_static_item"
    /\ callback("check_static_item")

NoCall == [fn |-> "none", owner |-> << >>, some |-> FALSE, panicked |-> FALSE, allocs |-> 0,
           again |-> FALSE]

EnvValues ==
    { [set |-> FALSE, val |-> << >>] }
    \cup { [set |-> TRUE, val |-> v] : v \in SeqsUpTo(PathChars \cup {Delim}, MaxEnvLen) }

Init ==
    /\ pc = "start"
    /\ env \in EnvValues
    /\ lint_passes = << >>
    /\ invalid_lint_passes = << >>
    /\ libs = << >>
    /\ loadLog = << >>
    /\ registerCalls = << >>
    /\ diag = << >>
    /\ hirItems = << >>
    /\ hirBodies = << >>
    /\ items = << >>
    /\ cursor = [i |-> 0, stage |-> "none", k |-> 0]
    /\ calls = << >>
    /\ trace = << >>
    /\ converter = EmptyCx
    /\ returned = {}
    /\ last = NoCall
    /\ debug_assertions = FALSE
    /\ session = 0
    /\ input = << >>
    /\ output = << >>
    /\ token_stream = << >>

Next ==
    \/ new_from_env
    \/ process_krate
    \/ check_attr
    \/ check_item
    \/ check_mod
    \/ check_extern_crate
    \/ check_use_decl
    \/ check_static_item

Spec == Init /\ [][Next]_vars

(***************************************************************************)
(* A conversion session: the public conversion functions are called, in    *)
(* any order, on the items of one crate.                                   *)
(***************************************************************************)
TopLeaves ==
    { Leaf(k, "", c, 0) :
        k \in {"Static", "Const", "Fn", "Macro", "GlobalAsm", "TyAlias", "OpaqueTy",
               "Enum", "Struct", "Union", "TraitAlias"},
        c \in Ctxts }
    \cup { Leaf("ExternCrate", d, c, 0) : d \in {"", "renamed"}, c \in Ctxts }
    \cup { Leaf("Use", d, c, 0) : d \in {"Single", "Glob", "ListStem"}, c \in Ctxts }
    \cup { Leaf("Fn", IceName, RootCtxt, 0) }

Container(kind, subs) ==
    { [kind |-> kind, detail |-> "", ctxt |-> c, attrs |-> 0, sub |-> s] :
        c \in {RootCtxt, AstPassCtxt}, s \in SeqsUpTo(subs, MaxSub) }

TopContainers ==
    Container("Mod", { Leaf("Fn", "", RootCtxt, 0), Leaf("Fn", "", AstPassCtxt, 0),
                       Leaf("Struct", "", MacroCtxt, 0) })
    \cup Container("Trait", { Leaf(k, "", RootCtxt, 0) : k \in {"Const", "Fn", "Type"} })
    \cup Container("Impl", { Leaf(k, "", RootCtxt, 0) : k \in {"Const", "Fn", "Type"} })
    \cup Container("ForeignMod", { Leaf(k, "", RootCtxt, 0) : k \in {"Fn", "Static", "Type"} })
    \cup Container("Struct", { Leaf("Field", "", RootCtxt, 0) })
    \cup Container("Enum", { Leaf("Variant", "", RootCtxt, 0),
                             [kind |-> "Variant", detail |-> "", ctxt |-> RootCtxt, attrs |-> 0,
                              sub |-> << Leaf("Field", "", RootCtxt, 0) >>] })

ConvCrates ==
    { << x >> : x \in TopLeaves \cup TopContainers }
    \cup { << x, Leaf("Fn", "", RootCtxt, 0) >> : x \in TopLeaves \cup TopContainers }

\* The owner ids that name an hir::Item: the top-level items and the items
\* of the modules.
RECURSIVE item_owners(_, _)
item_owners(prefix, rustc_items) ==
    UNION { { Append(prefix, i) }
            \cup ( IF rustc_items[i].kind = "Mod"
                   THEN item_owners(Append(prefix, i), rustc_items[i].sub)
                   ELSE {} )
            : i \in 1..Len(rustc_items) }

\* self.rustc_cx.hir().item(id)
RECURSIVE hir_item(_, _)
hir_item(rustc_items, owner_id) ==
    IF Len(owner_id) = 1 THEN rustc_items[owner_id[1]]
    ELSE hir_item(rustc_items[owner_id[1]].sub, Tail(owner_id))

\* MarkerConverterInner::to_item_from_id
to_item_from_id(cx, krate, owner_id) == to_item(cx, owner_id, hir_item(krate, owner_id))

\* What a call leaves behind: the converter, the pairs << id, node >> it
\* returned and the record of the call (again: a node was returned for the
\* id before this call).
conv_call(fn, owner_id, r, pairs) ==
    /\ pc = "conv"
    /\ converter' = r.cx
    /\ returned' = IF r.panicked THEN returned ELSE returned \cup pairs
    /\ last' = [fn |-> fn, owner |-> owner_id, some |-> ~r.panicked /\ fn # "to_items" /\ r.ret.some,
                panicked |-> r.panicked,
                allocs |-> Len(r.cx.arena) - Len(converter.arena),
                again |-> \E p \in returned : \E q \in pairs : p[1] = q[1]]
    /\ pc' = IF r.panicked THEN "conv_panicked" ELSE "conv"
    /\ UNCHANGED << env, lint_passes, invalid_lint_passes, libs, loadLog, registerCalls,
                    diag, hirItems, hirBodies, items, cursor, calls, trace, debug_assertions,
                    session, input, output, token_stream >>

call_to_items ==
    /\ pc = "conv"
    /\ LET r == to_items(converter, << >>, hirItems)
       IN  conv_call("to_items", << >>, r,
                     { << r.cx.arena[r.ret[i].ref].id, r.ret[i].ref >> : i \in 1..Len(r.ret) })

call_to_item ==
    \E owner_id \in item_owners(<< >>, hirItems) :
        LET r == to_item(converter, owner_id, hir_item(hirItems, owner_id))
        IN  conv_call("to_item", owner_id, r,
                      IF r.ret.some THEN { << to_item_id(owner_id), r.ret.item.ref >> } ELSE {})

call_to_item_from_id ==
    \E owner_id \in item_owners(<< >>, hirItems) :
        LET r == to_item_from_id(converter, hirItems, owner_id)
        IN  conv_call("to_item_from_id", owner_id, r,
                      IF r.ret.some THEN { << to_item_id(owner_id), r.ret.item.ref >> } ELSE {})

\* A body of the crate is converted. The arena is bounded by MaxArena.
call_to_body ==
    \E hir_id \in 1..Len(hirBodies) :
        /\ Len(converter.arena) + 2 <= MaxArena
        /\ LET r == to_body(converter, hir_id, hirBodies[hir_id])
           IN  conv_call("to_body", << hir_id >>, r, { << to_body_id(hir_id), r.ret.item.ref >> })

\* body.coroutine_kind: None, or the kind of the coroutine.
CoroutineKinds == {"None", "Async", "Coroutine"}

\* The crates of the sessions: a struct with a field, an enum with a unit
\* variant and a variant with a field, two functions, a module with a
\* function, an extern block with a function and a static, a trait with a
\* function.
SessionCrates ==
    { << [Leaf("Struct", "", RootCtxt, 0) EXCEPT !.sub = << Leaf("Field", "", RootCtxt, 0) >>] >>,
      << [Leaf("Enum", "", RootCtxt, 0) EXCEPT !.sub =
            << Leaf("Variant", "", RootCtxt, 0),
               [Leaf("Variant", "", RootCtxt, 0) EXCEPT !.sub = << Leaf("Field", "", RootCtxt, 0) >>] >>] >>,
      << Leaf("Fn", "", RootCtxt, 0), Leaf("Fn", "", AstPassCtxt, 0) >>,
      << [Leaf("Mod", "", RootCtxt, 0) EXCEPT !.sub = << Leaf("Fn", "", RootCtxt, 0) >>] >>,
      << [Leaf("ForeignMod", "", RootCtxt, 0) EXCEPT !.sub =
            << Leaf("Fn", "", RootCtxt, 0), Leaf("Static", "", RootCtxt, 0) >>] >>,
      << [Leaf("Trait", "", RootCtxt, 0) EXCEPT !.sub = << Leaf("Fn", "", RootCtxt, 0) >>] >> }

ConvBodies == SeqsUpTo({ [coroutine_kind |-> k] : k \in CoroutineKinds }, MaxBodies)

\* A teardown that leaves the converter as it is.
drop_session_keeps_caches(cx) == cx

\* The end of a session: the converter is dropped with its arena and its
\* caches.
drop_session(cx) == EmptyCx

\* last.allocs is the number of nodes that are dropped.
end_session ==
    /\ pc = "conv"
    /\ session < MaxSessions
    /\ pc' = "torn_down"
    /\ converter' = drop_session(converter)
    /\ returned' = {}
    /\ last' = [NoCall EXCEPT !.fn = "end_session", !.allocs = Len(converter.arena)]
    /\ hirItems' = << >>
    /\ hirBodies' = << >>
    /\ UNCHANGED << env, lint_passes, invalid_lint_passes, libs, loadLog, registerCalls,
                    diag, items, cursor, calls, trace, debug_assertions, session, input, output, token_stream >>

\* The next session: a converter is made for the crate that is compiled.
new_session ==
    /\ pc = "torn_down"
    /\ pc' = "conv"
    /\ session' = session + 1
    /\ hirItems' \in SessionCrates
    /\ hirBodies' \in ConvBodies
    /\ last' = [last EXCEPT !.fn = "new_session"]
    /\ UNCHANGED << env, lint_passes, invalid_lint_passes, libs, loadLog, registerCalls,
                    diag, items, cursor, calls, trace, converter, returned, debug_assertions,
                    input, output, token_stream >>

InitConv ==
    /\ pc = "conv"
    /\ env = [set |-> FALSE, val |-> << >>]
    /\ lint_passes = << >>
    /\ invalid_lint_passes = << >>
    /\ libs = << >>
    /\ loadLog = << >>
    /\ registerCalls = << >>
    /\ diag = << >>
    /\ hirItems \in ConvCrates
    /\ hirBodies = << >>
    /\ items = << >>
    /\ cursor = [i |-> 0, stage |-> "none", k |-> 0]
    /\ calls = << >>
    /\ trace = << >>
    /\ converter = EmptyCx
    /\ returned = {}
    /\ last = NoCall
    /\ debug_assertions \in BOOLEAN
    /\ session = 1
    /\ input = << >>
    /\ output = << >>
    /\ token_stream = << >>

NextConv ==
    \/ call_to_items
    \/ call_to_item
    \/ call_to_item_from_id

SpecConv == InitConv /\ [][NextConv]_vars

(***************************************************************************)
(* Conversion sessions in sequence: the items and the bodies of a crate    *)
(* are converted, the session ends, the next crate is compiled.            *)
(***************************************************************************)
InitSession ==
    /\ pc = "conv"
    /\ env = [set |-> FALSE, val |-> << >>]
    /\ lint_passes = << >>
    /\ invalid_lint_passes = << >>
    /\ libs = << >>
    /\ loadLog = << >>
    /\ registerCalls = << >>
    /\ diag = << >>
    /\ hirItems \in SessionCrates
    /\ hirBodies \in ConvBodies
    /\ items = << >>
    /\ cursor = [i |-> 0, stage |-> "none", k |-> 0]
    /\ calls = << >>
    /\ trace = << >>
    /\ converter = EmptyCx
    /\ returned = {}
    /\ last = NoCall
    /\ debug_assertions = FALSE
    /\ session = 1
    /\ input = << >>
    /\ output = << >>
    /\ token_stream = << >>

NextSession ==
    \/ call_to_items
    \/ call_to_item
    \/ call_to_item_from_id
    \/ call_to_body
    \/ end_session
    \/ new_session

SpecSession == InitSession /\ [][NextSession]_vars

(***************************************************************************)
(* Functions applied to one argument: the argument is in input, the call   *)
(* puts the result into output.                                            *)
(***************************************************************************)
\* The variables of the adapter and of the converter before anything ran.
Fresh ==
    /\ env = [set |-> FALSE, val |-> << >>]
    /\ lint_passes = << >>
    /\ invalid_lint_passes = << >>
    /\ libs = << >>
    /\ loadLog = << >>
    /\ registerCalls = << >>
    /\ diag = << >>
    /\ hirItems = << >>
    /\ hirBodies = << >>
    /\ items = << >>
    /\ cursor = [i |-> 0, stage |-> "none", k |-> 0]
    /\ calls = << >>
    /\ trace = << >>
    /\ converter = EmptyCx
    /\ returned = {}
    /\ last = NoCall
    /\ debug_assertions = FALSE
    /\ session = 0

returns(result) ==
    /\ pc' = "returned"
    /\ output' = result
    /\ UNCHANGED << env, lint_passes, invalid_lint_passes, libs, loadLog, registerCalls,
                    diag, hirItems, hirBodies, items, cursor, calls, trace, converter,
                    returned, last, debug_assertions, session, input, token_stream >>

(***************************************************************************)
(* The conversion of generic arguments:                                    *)
(* marker_rustc_driver/src/conversion/marker/generics.rs.                  *)
(***************************************************************************)
\* hir::GenericArg: a lifetime (with its hir::LifetimeName, anonymous or
\* not, synthetic or not), a type, a const or an inferred argument.
Lt(res, anon, synthetic) ==
    [kind |-> "Lifetime", res |-> res, is_anonymous |-> anon, is_synthetic |-> synthetic]

RustcGenericArgs ==
    { Lt("Param", FALSE, FALSE), Lt("Param", TRUE, FALSE), Lt("Param", TRUE, TRUE),
      Lt("ImplicitObjectLifetimeDefault", TRUE, FALSE), Lt("Infer", TRUE, FALSE),
      Lt("Static", FALSE, FALSE) }
    \cup { [kind |-> k, res |-> "", is_anonymous |-> FALSE, is_synthetic |-> FALSE] :
             k \in {"Type", "Const", "Infer"} }

\* hir::TypeBinding: `Item = Ty`, `N = 3`, `Item: Bound`.
RustcBindings == {"Equality_Ty", "Equality_Const", "Constraint"}

\* MarkerConverterInner::to_lifetime
to_lifetime(rust_lt) ==
    CASE rust_lt.res = "Param" /\ rust_lt.is_anonymous -> [some |-> FALSE, kind |-> "", panicked |-> FALSE]
      [] rust_lt.res = "Param" -> [some |-> TRUE, kind |-> "Label", panicked |-> FALSE]
      [] rust_lt.res = "ImplicitObjectLifetimeDefault" -> [some |-> FALSE, kind |-> "", panicked |-> FALSE]
      [] rust_lt.res = "Infer" -> [some |-> TRUE, kind |-> "Infer", panicked |-> FALSE]
      [] rust_lt.res = "Static" -> [some |-> TRUE, kind |-> "Static", panicked |-> FALSE]
      [] OTHER -> [some |-> FALSE, kind |-> "", panicked |-> TRUE]   \* unreachable!

\* The first chain of to_generic_args: the synthetic arguments are left
\* out, a lifetime is kept when to_lifetime gives one, a type is kept, a
\* const or an inferred argument runs into todo!().
RECURSIVE generic_args_loop(_, _, _)
generic_args_loop(rustc_args, i, acc) ==
    IF i > Len(rustc_args) THEN [args |-> acc, panicked |-> FALSE]
    ELSE LET rustc_arg == rustc_args[i]
         IN  IF rustc_arg.is_synthetic THEN generic_args_loop(rustc_args, i + 1, acc)
             ELSE CASE rustc_arg.kind = "Lifetime" ->
                         LET lt == to_lifetime(rustc_arg)
                         IN  IF lt.panicked THEN [args |-> acc, panicked |-> TRUE]
                             ELSE generic_args_loop(rustc_args, i + 1,
                                     IF lt.some THEN Append(acc, "Lifetime") ELSE acc)
                    [] rustc_arg.kind = "Type" -> generic_args_loop(rustc_args, i + 1, Append(acc, "Ty"))
                    [] OTHER -> [args |-> acc, panicked |-> TRUE]   \* todo!()

\* args.extend(bindings...): `Item = Ty` becomes a binding, a const term or
\* a constraint runs into todo!().
RECURSIVE generic_bindings_loop(_, _, _)
generic_bindings_loop(bindings, i, acc) ==
    IF i > Len(bindings) THEN [args |-> acc, panicked |-> FALSE]
    ELSE IF bindings[i] = "Equality_Ty"
         THEN generic_bindings_loop(bindings, i + 1, Append(acc, "Binding"))
         ELSE [args |-> acc, panicked |-> TRUE]   \* todo!()

\* MarkerConverterInner::to_generic_args. rustc_args is
\* [some, args, bindings].
to_generic_args(rustc_args) ==
    IF ~rustc_args.some THEN [args |-> << >>, panicked |-> FALSE]
    ELSE LET r == generic_args_loop(rustc_args.args, 1, << >>)
         IN  IF r.panicked THEN r
             ELSE generic_bindings_loop(rustc_args.bindings, 1, r.args)

GenericArgsInputs ==
    { [some |-> FALSE, args |-> << >>, bindings |-> << >>] }
    \cup { [some |-> TRUE, args |-> a, bindings |-> b] :
             a \in SeqsUpTo(RustcGenericArgs, MaxArgs), b \in SeqsUpTo(RustcBindings, MaxBindings) }

call_to_generic_args ==
    /\ pc = "to_generic_args"
    /\ returns(to_generic_args(input))

\* The conversion is handed a crate to convert or the generic arguments of
\* a path.
InitUnsupported ==
    \/ InitConv
    \/ /\ pc = "to_generic_args"
       /\ input \in GenericArgsInputs
       /\ output = << >>
       /\ token_stream = << >>
       /\ Fresh

NextUnsupported ==
    \/ call_to_items
    \/ call_to_item
    \/ call_to_item_from_id
    \/ call_to_generic_args

SpecUnsupported == InitUnsupported /\ [][NextUnsupported]_vars

(***************************************************************************)
(* The conversion of generic parameters and where clauses:                 *)
(* to_generic_params of the same file.                                     *)
(*                                                                         *)
(* A lifetime of rustc is Lt(..) with its name in ident; a where predicate *)
(* is [kind, lifetime, bounds]: a BoundPredicate (`T: Bound`) or a         *)
(* RegionPredicate (`'a: 'b + 'c`) with the bounded lifetime and its       *)
(* bounds, each [kind, lifetime] with kind Outlives.                       *)
(***************************************************************************)
NamedLt(res, anon, ident) == Lt(res, anon, FALSE) @@ [ident |-> ident]

\* The lifetimes written as bounds: 'b, 'c, 'static and an anonymous one.
BoundLifetimes ==
    { NamedLt("Param", FALSE, "'b"), NamedLt("Param", FALSE, "'c"),
      NamedLt("Static", FALSE, "'static"), NamedLt("Param", TRUE, "'_") }

Outlives(lt) == [kind |-> "Outlives", lifetime |-> lt]

\* Lifetime::new(span, kind) for the lifetime to_lifetime accepts.
Lifetime_new(rust_lt) == [kind |-> to_lifetime(rust_lt).kind, ident |-> rust_lt.ident]

\* lifetime_bound.bounds.iter().filter_map(..).collect(): the outlives
\* bounds to_lifetime converts, in their order.
RECURSIVE lifetime_bounds_loop(_, _, _)
lifetime_bounds_loop(bounds, i, acc) ==
    IF i > Len(bounds) THEN [bounds |-> acc, panicked |-> FALSE]
    ELSE IF bounds[i].kind # "Outlives" \/ to_lifetime(bounds[i].lifetime).panicked
    THEN [bounds |-> acc, panicked |-> TRUE]   \* unreachable!
    ELSE lifetime_bounds_loop(bounds, i + 1,
             IF to_lifetime(bounds[i].lifetime).some
             THEN Append(acc, Lifetime_new(bounds[i].lifetime))
             ELSE acc)

\* The closure of the filter_map over the predicates: the clause of one
\* predicate, if it gets one.
where_clause(predicate) ==
    CASE predicate.kind = "BoundPredicate" ->
            [some |-> TRUE, panicked |-> FALSE,
             clause |-> [kind |-> "Ty", lifetime |-> << >>, bounds |-> << >>]]
      [] predicate.kind = "RegionPredicate" ->
            LET lt == to_lifetime(predicate.lifetime)
                collected == lifetime_bounds_loop(predicate.bounds, 1, << >>)
                bounds == IF collected.bounds = << >> THEN collected.bounds ELSE << >>
            IN  IF lt.panicked THEN [some |-> FALSE, panicked |-> TRUE, clause |-> << >>]
                ELSE IF ~lt.some THEN [some |-> FALSE, panicked |-> FALSE, clause |-> << >>]
                ELSE IF collected.panicked
                THEN [some |-> FALSE, panicked |-> TRUE, clause |-> << >>]
                ELSE [some |-> TRUE, panicked |-> FALSE,
                      clause |-> [kind |-> "Lifetime",
                                  lifetime |-> << Lifetime_new(predicate.lifetime) >>,
                                  bounds |-> bounds]]
      [] OTHER -> [some |-> FALSE, panicked |-> TRUE, clause |-> << >>]   \* unreachable!

RECURSIVE where_clauses_loop(_, _, _)
where_clauses_loop(predicates, i, acc) ==
    IF i > Len(predicates) THEN [clauses |-> acc, panicked |-> FALSE]
    ELSE LET c == where_clause(predicates[i])
         IN  IF c.panicked THEN [clauses |-> acc, panicked |-> TRUE]
             ELSE where_clauses_loop(predicates, i + 1,
                      IF c.some THEN Append(acc, c.clause) ELSE acc)

\* to_generic_param_kinds: the parameters with a plain name that are an
\* explicit lifetime or a type that is not synthetic.
RECURSIVE to_generic_param_kinds(_)
to_generic_param_kinds(params) ==
    IF params = << >> THEN << >>
    ELSE LET rustc_param == Head(params)
             rest == to_generic_param_kinds(Tail(params))
         IN  IF ~rustc_param.plain THEN rest
             ELSE CASE rustc_param.kind = "Lifetime_Explicit" -> << "Lifetime" >> \o rest
                    [] rustc_param.kind = "Type" -> << "Ty" >> \o rest
                    [] OTHER -> rest

\* MarkerConverterInner::to_generic_params. rustc_generics is
\* [params, predicates].
to_generic_params(rustc_generics) ==
    LET r == where_clauses_loop(rustc_generics.predicates, 1, << >>)
    IN  [params |-> to_generic_param_kinds(rustc_generics.params),
         clauses |-> r.clauses, panicked |-> r.panicked]

\* The generics to_generic_params is applied to: `<'a, T>` or `<'a, impl
\* Trait>` with one lifetime predicate, after a type predicate or alone.
RegionPredicates ==
    { [kind |-> "RegionPredicate", lifetime |-> l, bounds |-> b] :
        l \in { NamedLt("Param", FALSE, "'a"), NamedLt("Static", FALSE, "'static"),
                NamedLt("Param", TRUE, "'_") },
        b \in SeqsUpTo({ Outlives(lt) : lt \in BoundLifetimes }, MaxBounds) }

RustcGenerics ==
    { [params |-> << [plain |-> TRUE, kind |-> "Lifetime_Explicit"], [plain |-> TRUE, kind |-> k] >>,
       predicates |-> before \o << p >>] :
        k \in {"Type", "Type_Synthetic"},
        before \in { << >>, << [kind |-> "BoundPredicate", lifetime |-> << >>, bounds |-> << >>] >> },
        p \in RegionPredicates }

call_to_generic_params ==
    /\ pc = "to_generic_params"
    /\ returns(to_generic_params(input))

InitGenericParams ==
    /\ pc = "to_generic_params"
    /\ input \in RustcGenerics
    /\ output = << >>
    /\ token_stream = << >>
    /\ Fresh

NextGenericParams == call_to_generic_params

SpecGenericParams == InitGenericParams /\ [][NextGenericParams]_vars

(***************************************************************************)
(* The token stream of an attribute: linter_api/src/ast/common/attrs.rs.   *)
(***************************************************************************)
TokenChars == {"(", ")", "x"}

\* proc_macro2::TokenStream::from_str: the tokens of the string with the
\* depth of the group they are in; an error when a group is closed that was
\* not opened or is not closed at the end.
RECURSIVE lex(_, _, _, _)
lex(s, i, depth, acc) ==
    IF i > Len(s)
    THEN IF depth = 0 THEN [ok |-> TRUE, stream |-> acc] ELSE [ok |-> FALSE, stream |-> << >>]
    ELSE CASE s[i] = "(" -> lex(s, i + 1, depth + 1, Append(acc, [tok |-> "Group", depth |-> depth]))
           [] s[i] = ")" -> IF depth = 0 THEN [ok |-> FALSE, stream |-> << >>]
                            ELSE lex(s, i + 1, depth - 1, acc)
           [] OTHER -> lex(s, i + 1, depth, Append(acc, [tok |-> "Ident", depth |-> depth]))

from_str(s) == lex(s, 1, 0, << >>)

\* OnceCell::default()
EmptyCell == [init |-> FALSE, value |-> [ok |-> FALSE, stream |-> << >>]]

\* MacroTokenStream::new
MacroTokenStream_new(string_repr) == [string_repr |-> string_repr, proc_macro2_repr |-> EmptyCell]

\* MacroTokenStream::as_str_repr
as_str_repr(self) == self.string_repr

\* A cell that keeps a value only when it is Ok.
get_or_init_forgets_err(cell, value) ==
    IF cell.init THEN [cell |-> cell, ran |-> FALSE]
    ELSE [cell |-> [init |-> value.ok, value |-> value], ran |-> TRUE]

\* OnceCell::get_or_init: the closure runs when the cell is empty, and what
\* it returns (value) is stored; ran tells whether the closure ran.
get_or_init(cell, value) ==
    IF cell.init THEN [cell |-> cell, ran |-> FALSE]
    ELSE [cell |-> [init |-> TRUE, value |-> value], ran |-> TRUE]

\* MacroTokenStream::as_proc_macro2_repr. The call is recorded in output
\* with what it returned and whether from_str ran.
as_proc_macro2_repr ==
    /\ pc = "token_stream"
    /\ Len(output) < MaxCalls
    /\ LET r == get_or_init(token_stream.proc_macro2_repr, from_str(as_str_repr(token_stream)))
       IN  /\ token_stream' = [token_stream EXCEPT !.proc_macro2_repr = r.cell]
           /\ output' = Append(output, [result |-> r.cell.value, parsed |-> r.ran])
    /\ UNCHANGED << pc, env, lint_passes, invalid_lint_passes, libs, loadLog, registerCalls,
                    diag, hirItems, hirBodies, items, cursor, calls, trace, converter,
                    returned, last, debug_assertions, session, input >>

InitTokens ==
    /\ pc = "token_stream"
    /\ input \in SeqsUpTo(TokenChars, MaxTokLen)
    /\ token_stream = MacroTokenStream_new(input)
    /\ output = << >>
    /\ Fresh

NextTokens == as_proc_macro2_repr

SpecTokens == InitTokens /\ [][NextTokens]_vars

(***************************************************************************)
(* The kinds of expressions: marker_api/src/ast/expr.rs.                   *)
(*                                                                         *)
(* A node is [enum_name, id, kind, operand]: the struct of the expression  *)
(* (named by its variant of ExprKind), its ExprId, for a UnaryOpExpr the   *)
(* UnaryOpKind and the operand (an ExprKind, in a sequence of one).        *)
(* A value of ExprKind or of LitExprKind is [variant, node].               *)
(***************************************************************************)
ExprIds == {1, 2}

LeafExprs == {"IntLit", "FloatLit", "StrLit", "CharLit", "BoolLit", "Block", "Path", "Call"}

UnaryOpKinds == {"Neg", "Not", "Deref"}

\* impl_expr_data!: From<&T> for ExprKind (and ExprData::as_expr).
as_expr(node) == [variant |-> node.enum_name, node |-> node]

RECURSIVE ExprNodes(_)
ExprNodes(depth) ==
    IF depth = 0
    THEN { [enum_name |-> e, id |-> i, kind |-> "", operand |-> << >>] :
             e \in LeafExprs, i \in ExprIds }
    ELSE LET inner == ExprNodes(depth - 1)
         IN  inner \cup { [enum_name |-> "UnaryOp", id |-> i, kind |-> k,
                           operand |-> << as_expr(n) >>] :
                             i \in ExprIds, k \in UnaryOpKinds, n \in inner }

\* From<LitExprKind> for ExprKind with the float literals turned into
\* integer literals.
ExprKind_from_float_as_int(value) ==
    CASE value.variant = "Int" -> [variant |-> "IntLit", node |-> value.node]
      [] value.variant = "Float" -> [variant |-> "IntLit", node |-> value.node]
      [] value.variant = "Str" -> [variant |-> "StrLit", node |-> value.node]
      [] value.variant = "Char" -> [variant |-> "CharLit", node |-> value.node]
      [] value.variant = "Bool" -> [variant |-> "BoolLit", node |-> value.node]
      [] value.variant = "UnaryOp" -> [variant |-> "UnaryOp", node |-> value.node]

\* From<LitExprKind> for ExprKind
ExprKind_from(value) ==
    CASE value.variant = "Int" -> [variant |-> "IntLit", node |-> value.node]
      [] value.variant = "Float" -> [variant |-> "FloatLit", node |-> value.node]
      [] value.variant = "Str" -> [variant |-> "StrLit", node |-> value.node]
      [] value.variant = "Char" -> [variant |-> "CharLit", node |-> value.node]
      [] value.variant = "Bool" -> [variant |-> "BoolLit", node |-> value.node]
      [] value.variant = "UnaryOp" -> [variant |-> "UnaryOp", node |-> value.node]

Ok(value) == [ok |-> TRUE, value |-> value]
Err == [ok |-> FALSE, value |-> [variant |-> "", node |-> << >>]]

RECURSIVE LitExprKind_try_from(_)
\* TryFrom<ExprKind> for LitExprKind without the comparison with
\* UnaryOpKind::Neg.
LitExprKind_try_from_any_unary(value) ==
    CASE value.variant = "IntLit" -> Ok([variant |-> "Int", node |-> value.node])
      [] value.variant = "FloatLit" -> Ok([variant |-> "Float", node |-> value.node])
      [] value.variant = "StrLit" -> Ok([variant |-> "Str", node |-> value.node])
      [] value.variant = "CharLit" -> Ok([variant |-> "Char", node |-> value.node])
      [] value.variant = "BoolLit" -> Ok([variant |-> "Bool", node |-> value.node])
      [] value.variant = "UnaryOp" ->
            IF LitExprKind_try_from(value.node.operand[1]).ok
            THEN Ok([variant |-> "UnaryOp", node |-> value.node])
            ELSE Err
      [] OTHER -> Err

\* TryFrom<ExprKind> for LitExprKind
LitExprKind_try_from(value) ==
    CASE value.variant = "IntLit" -> Ok([variant |-> "Int", node |-> value.node])
      [] value.variant = "FloatLit" -> Ok([variant |-> "Float", node |-> value.node])
      [] value.variant = "StrLit" -> Ok([variant |-> "Str", node |-> value.node])
      [] value.variant = "CharLit" -> Ok([variant |-> "Char", node |-> value.node])
      [] value.variant = "BoolLit" -> Ok([variant |-> "Bool", node |-> value.node])
      [] value.variant = "UnaryOp" ->
            IF value.node.kind = "Neg" /\ LitExprKind_try_from(value.node.operand[1]).ok
            THEN Ok([variant |-> "UnaryOp", node |-> value.node])
            ELSE Err
      [] OTHER -> Err

\* output is the chain of the conversions of the node in input: the
\* ExprKind of the node, narrowed, widened, narrowed again.
call_as_expr ==
    /\ pc = "kinds"
    /\ output = << >>
    /\ output' = << as_expr(input) >>
    /\ UNCHANGED << pc, env, lint_passes, invalid_lint_passes, libs, loadLog, registerCalls,
                    diag, hirItems, hirBodies, items, cursor, calls, trace, converter,
                    returned, last, debug_assertions, session, input, token_stream >>

call_try_from ==
    /\ pc = "kinds"
    /\ Len(output) \in {1, 3}
    /\ output' = Append(output, LitExprKind_try_from(output[Len(output)]))
    /\ UNCHANGED << pc, env, lint_passes, invalid_lint_passes, libs, loadLog, registerCalls,
                    diag, hirItems, hirBodies, items, cursor, calls, trace, converter,
                    returned, last, debug_assertions, session, input, token_stream >>

call_from ==
    /\ pc = "kinds"
    /\ Len(output) = 2
    /\ output[2].ok
    /\ output' = Append(output, ExprKind_from(output[2].value))
    /\ UNCHANGED << pc, env, lint_passes, invalid_lint_passes, libs, loadLog, registerCalls,
                    diag, hirItems, hirBodies, items, cursor, calls, trace, converter,
                    returned, last, debug_assertions, session, input, token_stream >>

InitKinds ==
    /\ pc = "kinds"
    /\ input \in ExprNodes(MaxDepth)
    /\ output = << >>
    /\ token_stream = << >>
    /\ Fresh

NextKinds ==
    \/ call_as_expr
    \/ call_try_from
    \/ call_from

SpecKinds == InitKinds /\ [][NextKinds]_vars

(***************************************************************************)
(* Extern crate items: the ExternCrate arm of to_item and                  *)
(* linter_api/src/ast/item/extern_crate_item.rs.                           *)
(***************************************************************************)
\* The names of crates and of their aliases.
Names == SeqsUpTo({"s", "t"}, MaxNameLen) \ { << >> }

\* Option<Symbol>
NoName == [some |-> FALSE, name |-> << >>]
SomeName(name) == [some |-> TRUE, name |-> name]

\* Option::unwrap_or
unwrap_or(opt, default) == IF opt.some THEN opt.name ELSE default

\* self.to_symbol_id(name): the symbol of the API for a symbol of rustc.
to_symbol_id(name) == << "SymbolId", name >>

\* self.to_ident(rustc_item.ident)
to_ident(ident) == [name |-> to_symbol_id(ident.name)]

\* ExternCrateItem::new
ExternCrateItem_new(data, crate_name) == [data |-> data, crate_name |-> crate_name]

\* The ExternCrate arm with the name of the item taken as the crate name.
to_extern_crate_item_ident_only(rustc_item) ==
    ExternCrateItem_new([ident |-> to_ident(rustc_item.ident)],
                        to_symbol_id(rustc_item.ident.name))

\* The ExternCrate arm of to_item: rustc_item is [ident, original_name],
\* with original_name the payload of hir::ItemKind::ExternCrate.
to_extern_crate_item(rustc_item) ==
    ExternCrateItem_new([ident |-> to_ident(rustc_item.ident)],
                        to_symbol_id(unwrap_or(rustc_item.original_name, rustc_item.ident.name)))

\* ItemData::get_name
get_name(self) == self.data.ident.name

\* ExternCrateItem::get_crate_name
get_crate_name(self) == self.crate_name

\* `extern crate <crate>;` and `extern crate <crate> as <alias>;` in the
\* HIR: without alias the ident is the crate and there is no original name,
\* with an alias the ident is the alias and the original name is the crate.
ExternCrateDecl(crate, alias) ==
    IF alias.some
    THEN [ident |-> [name |-> alias.name], original_name |-> SomeName(crate)]
    ELSE [ident |-> [name |-> crate], original_name |-> NoName]

\* output is [item, names]: the converted item and what the getters
\* returned for it.
call_to_extern_crate_item ==
    /\ pc = "extern_crate"
    /\ pc' = "extern_crate_item"
    /\ output' = [item |-> to_extern_crate_item(ExternCrateDecl(input.crate, input.alias)),
                  names |-> << >>]
    /\ UNCHANGED << env, lint_passes, invalid_lint_passes, libs, loadLog, registerCalls,
                    diag, hirItems, hirBodies, items, cursor, calls, trace, converter,
                    returned, last, debug_assertions, session, input, token_stream >>

call_get_name ==
    /\ pc = "extern_crate_item"
    /\ \A i \in 1..Len(output.names) : output.names[i].fn # "get_name"
    /\ output' = [output EXCEPT !.names = Append(@, [fn |-> "get_name", ret |-> get_name(output.item)])]
    /\ UNCHANGED << pc, env, lint_passes, invalid_lint_passes, libs, loadLog, registerCalls,
                    diag, hirItems, hirBodies, items, cursor, calls, trace, converter,
                    returned, last, debug_assertions, session, input, token_stream >>

call_get_crate_name ==
    /\ pc = "extern_crate_item"
    /\ \A i \in 1..Len(output.names) : output.names[i].fn # "get_crate_name"
    /\ output' = [output EXCEPT !.names =
                     Append(@, [fn |-> "get_crate_name", ret |-> get_crate_name(output.item)])]
    /\ UNCHANGED << pc, env, lint_passes, invalid_lint_passes, libs, loadLog, registerCalls,
                    diag, hirItems, hirBodies, items, cursor, calls, trace, converter,
                    returned, last, debug_assertions, session, input, token_stream >>

InitExternCrate ==
    /\ pc = "extern_crate"
    /\ input \in { [crate |-> c, alias |-> a] :
                     c \in Names, a \in {NoName} \cup { SomeName(n) : n \in Names } }
    /\ output = << >>
    /\ token_stream = << >>
    /\ Fresh

NextExternCrate ==
    \/ call_to_extern_crate_item
    \/ call_get_name
    \/ call_get_crate_name

SpecExternCrate == InitExternCrate /\ [][NextExternCrate]_vars

(***************************************************************************)
(* The conversion of attributes:                                           *)
(* linter_driver_rustc/src/ast/common/attr.rs.                             *)
(*                                                                         *)
(* A rustc attribute is [kind, style, path, args, value]: Normal or        *)
(* DocComment, Outer or Inner, the path of a normal attribute, its         *)
(* arguments (Empty, Delimited, Eq with a string literal, Eq with another  *)
(* literal) and the string of the literal or of the doc comment.           *)
(***************************************************************************)
AttrPaths == {"rustfmt::skip", "clippy::msrv", "derive", "allow"}

AttrValues == {"1.45.0", "dead_code"}

RustcAttributes ==
    { [kind |-> "Normal", style |-> st, path |-> p, args |-> a, value |-> v] :
        st \in {"Outer", "Inner"}, p \in AttrPaths,
        a \in {"Delimited", "Eq_Str", "Eq_Int"}, v \in AttrValues }
    \cup { [kind |-> "Normal", style |-> st, path |-> p, args |-> "Empty", value |-> ""] :
             st \in {"Outer", "Inner"}, p \in AttrPaths }
    \cup { [kind |-> "DocComment", style |-> st, path |-> "", args |-> "Empty", value |-> v] :
             st \in {"Outer", "Inner"}, v \in AttrValues }

\* rustc_ast::Attribute::value_str: the string of `= "..."`, nothing for
\* an attribute without `=` and for a literal that is no string.
value_str(attr) ==
    IF attr.kind = "Normal" /\ attr.args = "Eq_Str"
    THEN [some |-> TRUE, symbol |-> attr.value]
    ELSE [some |-> FALSE, symbol |-> ""]

\* ToApi<AttrStyle> for rustc_ast::AttrStyle
AttrStyle_to_api(style) ==
    CASE style = "Outer" -> "Outer"
      [] style = "Inner" -> "Inner"

\* ToApi<&Attribute> for rustc_ast::Attribute
Attribute_to_api(attr) ==
    LET path_input ==
            IF attr.kind = "Normal"
            THEN LET symbol == value_str(attr)
                 IN  [path |-> attr.path,
                      input |-> IF symbol.some
                                THEN [variant |-> "Expr", symbol |-> symbol.symbol]
                                ELSE [variant |-> "None", symbol |-> ""]]
            ELSE [path |-> "doc", input |-> [variant |-> "Expr", symbol |-> attr.value]]
    IN  [style |-> AttrStyle_to_api(attr.style), path |-> path_input.path,
         input |-> path_input.input]

call_to_api ==
    /\ pc = "attribute"
    /\ returns(Attribute_to_api(input))

InitAttr ==
    /\ pc = "attribute"
    /\ input \in RustcAttributes
    /\ output = << >>
    /\ token_stream = << >>
    /\ Fresh

NextAttr == call_to_api

SpecAttr == InitAttr /\ [][NextAttr]_vars

(***************************************************************************)
(* The launcher: cargo-marker/src/main.rs.                                 *)
(*                                                                         *)
(* A path is a sequence of pieces: the characters "a" and ";", and names   *)
(* of more than one character that hold neither "/" nor ";" apart from     *)
(* the "/" written in them.                                                *)
(***************************************************************************)
LINT_KRATES_BASE_DIR == << "./target/marker" >>

\* The directories cargo-marker is run in.
WorkingDirs == { << "/", "a" >>, << "/", "a", ";", "a" >> }

\* The crate directories given with --lints or in Cargo.toml.
LintCratePaths == SeqsUpTo({"a", ";"}, MaxPathLen) \ { << >> }

\* std::fs::canonicalize of a relative path that exists: the path below
\* the working directory.
canonicalize(cwd, path) ==
    IF path # << >> /\ path[1] = "./target/marker"
    THEN cwd \o << "/target/marker" >> \o Tail(path)
    ELSE path

\* prepare_lint_build_dir: the absolute path of the build directory.
prepare_lint_build_dir(cwd, dir_name) ==
    canonicalize(cwd, LINT_KRATES_BASE_DIR \o << "/", dir_name >>)

\* static MARKER_LINT_DIR
MARKER_LINT_DIR(cwd) == prepare_lint_build_dir(cwd, "marker")

\* lints::build_local_lint_crate: the crate in src_dir is built, the
\* library is a file of target_dir named after the crate.
build_local_lint_crate(src_dir, target_dir) ==
    target_dir \o << "/lib" >> \o src_dir \o << ".so" >>

\* [OsString]::join
RECURSIVE join(_, _)
join(list, sep) ==
    IF list = << >> THEN << >>
    ELSE IF Len(list) = 1 THEN list[1]
    ELSE list[1] \o << sep >> \o join(Tail(list), sep)

contains(path, c) == \E i \in 1..Len(path) : path[i] = c

\* Option<T> of the launcher: the --lints arguments, the configuration.
Absent == [some |-> FALSE, value |-> << >>]
Given(v) == [some |-> TRUE, value |-> v]

\* A result of the launcher: the status, whether the driver was installed
\* anew, the libraries that were built, the value of MARKER_LINT_CRATES
\* and what was done with the driver ("none", "print_env", "run_driver").
Exit(status, installed) ==
    [status |-> status, installed |-> installed, lint_crates |-> << >>,
     MARKER_LINT_CRATES |-> << >>, driver |-> "none"]

\* Config::collect_paths: the paths of the lint crates of Cargo.toml, or
\* the error of a configuration that cannot be used.
collect_paths(config) ==
    IF config.valid THEN [ok |-> TRUE, paths |-> config.lints, status |-> "Ok"]
    ELSE [ok |-> FALSE, paths |-> << >>, status |-> "BadConfiguration"]

\* choose_lint_crates with the configuration looked at first.
choose_lint_crates_config_first(lints, config) ==
    IF config.some THEN collect_paths(config.value)
    ELSE IF lints.some THEN [ok |-> TRUE, paths |-> lints.value, status |-> "Ok"]
    ELSE [ok |-> FALSE, paths |-> << >>, status |-> "NoLints"]

\* choose_lint_crates: lints is args.get_many("lints").
choose_lint_crates(lints, config) ==
    IF lints.some THEN [ok |-> TRUE, paths |-> lints.value, status |-> "Ok"]
    ELSE IF config.some THEN collect_paths(config.value)
    ELSE [ok |-> FALSE, paths |-> << >>, status |-> "NoLints"]

\* run_check. e is what the launcher finds around it: the working
\* directory and the result driver::install_driver would have.
run_check(e, lint_crate_paths, dev_build, test_build) ==
    IF dev_build /\ e.install_driver # "Ok"
    THEN Exit(e.install_driver, FALSE)
    ELSE IF lint_crate_paths = << >>
    THEN Exit("NoLints", dev_build)
    ELSE IF \E i \in 1..Len(lint_crate_paths) : contains(lint_crate_paths[i], ";")
    THEN Exit("InvalidValue", dev_build)
    ELSE LET target_dir == MARKER_LINT_DIR(e.cwd)
             lint_crates == [i \in 1..Len(lint_crate_paths) |->
                                build_local_lint_crate(lint_crate_paths[i], target_dir)]
         IN  [status |-> "Ok", installed |-> dev_build, lint_crates |-> lint_crates,
              MARKER_LINT_CRATES |-> join(lint_crates, Delim),
              driver |-> IF test_build THEN "print_env" ELSE "run_driver"]

\* The `check` arm of main: run_check(&choose_lint_crates(args, config)?, ...)
check(e, lints, config, dev_build, test_build) ==
    LET chosen == choose_lint_crates(lints, config)
    IN  IF chosen.ok THEN run_check(e, chosen.paths, dev_build, test_build)
        ELSE Exit(chosen.status, FALSE)

\* What the launcher finds, the configurations of Cargo.toml and the two
\* kinds of build.
LauncherEnvs ==
    { [cwd |-> d, install_driver |-> r] :
        d \in WorkingDirs, r \in {"Ok", "DriverInstallationFailed"} }

Configs ==
    { Absent, Given([valid |-> FALSE, lints |-> << >>]) }
    \cup { Given([valid |-> TRUE, lints |-> l]) :
             l \in { << >>, << << "a" >> >>, << << "a", ";" >> >> } }

call_run_check ==
    /\ pc = "run_check"
    /\ returns(check(input.e, input.lints, input.config, input.dev_build, input.test_build))

InitLauncher ==
    /\ pc = "run_check"
    /\ input \in { [e |-> e, lints |-> l, config |-> c, dev_build |-> d, test_build |-> t] :
                     e \in LauncherEnvs,
                     l \in { Absent } \cup { Given(v) : v \in SeqsUpTo(LintCratePaths, MaxCrates) },
                     c \in Configs, d \in BOOLEAN, t \in BOOLEAN }
    /\ ~input.dev_build => input.e.install_driver = "Ok"
    /\ output = << >>
    /\ token_stream = << >>
    /\ Fresh

NextLauncher == call_run_check

SpecLauncher == InitLauncher /\ [][NextLauncher]_vars

(***************************************************************************)
(* The rustc driver: marker_rustc_driver/src/lib.rs.                       *)
(*                                                                         *)
(* A command-line argument is a sequence of pieces: the character "=" and  *)
(* words that hold no "=".                                                 *)
(***************************************************************************)
\* Option<&str>
NoValue == [some |-> FALSE, value |-> << >>]
SomeValue(v) == [some |-> TRUE, value |-> v]

\* The position of the first "=" of an argument, 0 when it has none.
RECURSIVE find_eq(_, _)
find_eq(arg, i) ==
    IF i > Len(arg) THEN 0
    ELSE IF arg[i] = "=" THEN i
    ELSE find_eq(arg, i + 1)

\* arg.splitn(2, '='): what is before the first "=" and, when there is
\* one, all that follows it.
splitn(arg) ==
    LET e == find_eq(arg, 1)
    IN  IF e = 0
        THEN [first |-> arg, second |-> NoValue]
        ELSE [first |-> SubSeq(arg, 1, e - 1),
              second |-> SomeValue(SubSeq(arg, e + 1, Len(arg)))]

\* The predicates given to arg_value: |_| true, |_| false, |val| val == v.
apply(pred, v) ==
    CASE pred.kind = "true" -> TRUE
      [] pred.kind = "false" -> FALSE
      [] pred.kind = "eq" -> v = pred.val

RECURSIVE arg_value_loop(_, _, _, _)
\* A variant that knows `find_arg=value` only.
arg_value_eq_form_only(args, find_arg, pred, i) ==
    IF i > Len(args) THEN NoValue
    ELSE LET arg == splitn(args[i])
         IN  IF arg.first # find_arg THEN arg_value_loop(args, find_arg, pred, i + 1)
             ELSE IF arg.second.some /\ apply(pred, arg.second.value)
                  THEN arg.second
                  ELSE arg_value_loop(args, find_arg, pred, i + 1)

\* The loop of arg_value; i is the position of the iterator `args`.
arg_value_loop(args, find_arg, pred, i) ==
    IF i > Len(args) THEN NoValue
    ELSE LET arg == splitn(args[i])
         IN  IF arg.first # find_arg THEN arg_value_loop(args, find_arg, pred, i + 1)
             ELSE LET taken == ~arg.second.some /\ i + 1 <= Len(args)
                      v == IF arg.second.some THEN arg.second
                           ELSE IF taken THEN SomeValue(args[i + 1])
                           ELSE NoValue
                      rest == IF taken THEN i + 2 ELSE i + 1
                  IN  IF v.some /\ apply(pred, v.value) THEN v
                      ELSE arg_value_loop(args, find_arg, pred, rest)

arg_value(args, find_arg, pred) == arg_value_loop(args, find_arg, pred, 1)

\* The arguments arg_value is applied to.
ArgWords ==
    { << "--foo" >>, << "--foo", "=", "x" >>, << "--foo", "=", "y" >>, << "--foo", "=" >>,
      << "--foo", "=", "x", "=", "y" >>, << "--bar" >>, << "x" >>, << "y" >> }

FindArgs == { << "--foo" >>, << "--bar" >> }

Preds == { [kind |-> "true", val |-> << >>], [kind |-> "false", val |-> << >>],
           [kind |-> "eq", val |-> << "x" >>] }

call_arg_value ==
    /\ pc = "arg_value"
    /\ returns(arg_value(input.args, input.find_arg, input.pred))

InitArgValue ==
    /\ pc = "arg_value"
    /\ input \in { [args |-> a, find_arg |-> f, pred |-> p] :
                     a \in SeqsUpTo(ArgWords, MaxArgv), f \in FindArgs, p \in Preds }
    /\ output = << >>
    /\ token_stream = << >>
    /\ Fresh

NextArgValue == call_arg_value

SpecArgValue == InitArgValue /\ [][NextArgValue]_vars

(***************************************************************************)
(* try_main.  The environment of the driver is [MARKER_SYSROOT,            *)
(* CARGO_PRIMARY_PACKAGE, MARKER_LINT_CRATES]; the arguments start with    *)
(* the name of the binary.  The result says how the run ended (the         *)
(* compiler was run, something was printed, an error was returned), and    *)
(* for a compiler run its arguments, its callbacks, the tracked            *)
(* environment variables and the lint crates handed to the callbacks.      *)
(***************************************************************************)
LINT_CRATES_ENV == << "MARKER_LINT_CRATES" >>
MARKER_SYSROOT_ENV == << "MARKER_SYSROOT" >>

\* LintCrateInfo::list_from_env: nothing when the variable is not set, an
\* error when its value cannot be read, the crates it lists otherwise.
list_from_env(e) ==
    CASE e.MARKER_LINT_CRATES.kind = "unset" -> [ok |-> TRUE, some |-> FALSE, crates |-> << >>]
      [] e.MARKER_LINT_CRATES.kind = "malformed" -> [ok |-> FALSE, some |-> FALSE, crates |-> << >>]
      [] e.MARKER_LINT_CRATES.kind = "list" ->
            [ok |-> TRUE, some |-> TRUE, crates |-> e.MARKER_LINT_CRATES.crates]

\* orig_args.iter().position(|arg| arg == word), 0 for None
RECURSIVE position(_, _, _)
position(args, word, i) ==
    IF i > Len(args) THEN 0
    ELSE IF args[i] = word THEN i
    ELSE position(args, word, i + 1)

\* orig_args.iter().any(|a| a == w) for a word w of words
any(args, words) == \E i \in 1..Len(args) : args[i] \in words

\* Vec::remove
remove(args, pos) == SubSeq(args, 1, pos - 1) \o SubSeq(args, pos + 1, Len(args))

\* Utf8Path::file_stem of the words used as arguments.
file_stem(arg) ==
    IF arg \in { << "rustc" >>, << "/bin/rustc" >> } THEN << "rustc" >> ELSE arg

\* rustc_driver::RunCompiler::new(&args, &mut DefaultCallbacks { env_vars }).run()
RunDefault(args, env_vars) ==
    [outcome |-> "RunCompiler", args |-> args, callbacks |-> "DefaultCallbacks",
     env_vars |-> env_vars, lint_crates |-> << >>, register_lints |-> FALSE]

\* rustc_driver::RunCompiler::new(&args, &mut MarkerCallback { env_vars, lint_crates }).run():
\* MarkerCallback::config sets register_lints, which loads the lint crates
\* and registers the late pass.
RunMarker(args, env_vars, lint_crates) ==
    [outcome |-> "RunCompiler", args |-> args, callbacks |-> "MarkerCallback",
     env_vars |-> env_vars, lint_crates |-> lint_crates, register_lints |-> TRUE]

\* A run that ends without the compiler.
Ends(outcome) ==
    [outcome |-> outcome, args |-> << >>, callbacks |-> "none",
     env_vars |-> << >>, lint_crates |-> << >>, register_lints |-> FALSE]

\* --cfg=marker="name"
cfg_marker(name) == << "--cfg", "=", "marker", "=", name >>

additional_args(lint_crates) ==
    << << "-Zcrate-attr", "=", "feature(register_tool)" >>,
       << "-Zcrate-attr", "=", "register_tool(marker)" >>,
       << "--cfg", "=", "marker" >> >>
    \o [i \in 1..Len(lint_crates) |-> cfg_marker(lint_crates[i])]

\* The decision of try_main once the options of the driver are handled.
\* A variant that takes no notice of --no-deps.
enable_marker_ignores_no_deps(orig_args, e) ==
    LET cap_lints_allow ==
            /\ arg_value(orig_args, << "--cap-lints" >>,
                         [kind |-> "eq", val |-> << "allow" >>]).some
            /\ ~arg_value(orig_args, << "--force-warn" >>, [kind |-> "true", val |-> << >>]).some
    IN  ~cap_lints_allow

enable_marker(orig_args, e) ==
    LET cap_lints_allow ==
            /\ arg_value(orig_args, << "--cap-lints" >>,
                         [kind |-> "eq", val |-> << "allow" >>]).some
            /\ ~arg_value(orig_args, << "--force-warn" >>, [kind |-> "true", val |-> << >>]).some
        no_deps == any(orig_args, { << "--no-deps" >> })
        in_primary_package == e.CARGO_PRIMARY_PACKAGE
    IN  ~cap_lints_allow /\ (~no_deps \/ in_primary_package)

\* try_main from the check of the wrapper mode on.
compile(args, e) ==
    LET wrapper_mode == Len(args) >= 2 /\ file_stem(args[2]) = << "rustc" >>
        orig_args == IF wrapper_mode THEN remove(args, 2) ELSE args
        env_vars == << LINT_CRATES_ENV, MARKER_SYSROOT_ENV >>
    IN  IF ~wrapper_mode /\ any(orig_args, { << "--help" >>, << "-h" >> })
        THEN Ends("help")
        ELSE IF ~enable_marker(orig_args, e)
        THEN RunDefault(orig_args, env_vars)
        ELSE LET listed == list_from_env(e)
             IN  IF ~listed.ok THEN Ends("Err")
                 ELSE RunMarker(orig_args \o additional_args(listed.crates),
                                env_vars, listed.crates)

\* A variant that looks for --version before it looks for --rustc.
try_main_version_first(args, e) ==
    IF any(args, { << "--version" >>, << "-V" >> }) THEN Ends("version")
    ELSE compile(args, e)

try_main(args, e) ==
    LET with_sysroot ==
            IF /\ ~arg_value(args, << "--sysroot" >>, [kind |-> "true", val |-> << >>]).some
               /\ e.MARKER_SYSROOT.some
            THEN args \o << << "--sysroot" >>, e.MARKER_SYSROOT.value >>
            ELSE args
        pos == position(with_sysroot, << "--rustc" >>, 1)
    IN  IF pos # 0
        THEN RunDefault([remove(with_sysroot, pos) EXCEPT ![1] = << "rustc" >>], << >>)
        ELSE IF any(with_sysroot, { << "--version" >>, << "-V" >> }) THEN Ends("version")
        ELSE IF any(with_sysroot, { << "--toolchain" >> }) THEN Ends("toolchain")
        ELSE compile(with_sysroot, e)

\* The arguments after the name of the binary, and the environments.
DriverWords ==
    { << "--rustc" >>, << "--version" >>, << "-V" >>, << "--toolchain" >>, << "--help" >>,
      << "-h" >>, << "rustc" >>, << "--cap-lints" >>, << "allow" >>,
      << "--cap-lints", "=", "allow" >>, << "--force-warn" >>, << "--force-warn", "=", "x" >>,
      << "--no-deps" >>, << "--sysroot" >> }

DriverEnvs ==
    { [MARKER_SYSROOT |-> s, CARGO_PRIMARY_PACKAGE |-> p, MARKER_LINT_CRATES |-> l] :
        s \in { NoValue, SomeValue(<< "/sys" >>) }, p \in BOOLEAN,
        l \in { [kind |-> "unset", crates |-> << >>], [kind |-> "malformed", crates |-> << >>],
                [kind |-> "list", crates |-> << "a" >>] } }

call_try_main ==
    /\ pc = "try_main"
    /\ returns(try_main(input.args, input.env))

InitDriver ==
    /\ pc = "try_main"
    /\ input \in { [args |-> << << "marker_rustc_driver" >> >> \o a, env |-> e] :
                     a \in SeqsUpTo(DriverWords, MaxArgv), e \in DriverEnvs }
    /\ output = << >>
    /\ token_stream = << >>
    /\ Fresh

NextDriver == call_try_main

SpecDriver == InitDriver /\ [][NextDriver]_vars

(***************************************************************************)
(* The registry on its own: loads, the callbacks of its LintPass           *)
(* implementation and for_each_lint_pass, applied in any order.  input is  *)
(* the last call with the registry before it, output the registry after it *)
(* and how the call ended.  The passes `call` panics in are an argument:   *)
(* the closure and the passes are not code of the registry.                *)
(***************************************************************************)
Self == [lint_passes |-> lint_passes, invalid_lint_passes |-> invalid_lint_passes,
         libs |-> libs]

\* The first loop of for_each_lint_pass: the indices (from 1) of the
\* passes whose call was caught panicking, in ascending order.
RECURSIVE catch_loop(_, _, _, _)
catch_loop(self, faulting, index, invalid) ==
    IF index > Len(self.lint_passes) THEN invalid
    ELSE IF self.lint_passes[index].n \in faulting
    THEN catch_loop(self, faulting, index + 1, Append(invalid, index))
    ELSE catch_loop(self, faulting, index + 1, invalid)

RECURSIVE remove_loop(_, _, _)
\* The second loop with the pass pushed to invalid_lint_passes and left in
\* lint_passes.
remove_loop_keeps_pass(self, invalid, k) ==
    IF k > Len(invalid) THEN [self |-> self, panicked |-> FALSE]
    ELSE LET index == invalid[k]
         IN  IF index > Len(self.lint_passes)
             THEN [self |-> self, panicked |-> TRUE]
             ELSE remove_loop(
                      [self EXCEPT !.invalid_lint_passes = Append(@, self.lint_passes[index])],
                      invalid, k + 1)

\* The second loop of for_each_lint_pass: `for index in invalid` moves
\* self.lint_passes.remove(index) to invalid_lint_passes; Vec::remove
\* panics when the index is not below the length of the vector.
remove_loop(self, invalid, k) ==
    IF k > Len(invalid) THEN [self |-> self, panicked |-> FALSE]
    ELSE LET index == invalid[k]
         IN  IF index > Len(self.lint_passes)
             THEN [self |-> self, panicked |-> TRUE]
             ELSE remove_loop(
                      [self EXCEPT !.invalid_lint_passes = Append(@, self.lint_passes[index]),
                                   !.lint_passes = remove(@, index)],
                      invalid, k + 1)

\* ExternalLintCrateRegistry::for_each_lint_pass
for_each_lint_pass(self, faulting) ==
    remove_loop(self, catch_loop(self, faulting, 1, << >>), 1)

\* The nodes the callbacks are given.
RegistryNodes == { [tag |-> "Fn", ref |-> 1], [tag |-> "Mod", ref |-> 2] }

RegistryCallbacks == {"check_item", "check_mod", "check_extern_crate", "check_use_decl"}

registry_load ==
    /\ pc = "registry"
    /\ Len(lint_passes) + Len(invalid_lint_passes) < MaxPasses
    /\ \E file \in PathChars :
          LET r == load_external_lib(Self, << file >>)
          IN  /\ lint_passes' = r.self.lint_passes
              /\ invalid_lint_passes' = r.self.invalid_lint_passes
              /\ libs' = r.self.libs
              /\ registerCalls' = IF r.registerRun THEN Append(registerCalls, << file >>)
                                  ELSE registerCalls
              /\ input' = [fn |-> "load_external_lib", before |-> Self, faulting |-> {}]
              /\ output' = [self |-> r.self, result |-> r.result]
    /\ UNCHANGED << pc, env, loadLog, diag, hirItems, hirBodies, items, cursor, calls, trace,
                    convVars, debug_assertions, session, token_stream >>

registry_callback_call ==
    /\ pc = "registry"
    /\ \E cb \in RegistryCallbacks, node \in RegistryNodes :
          LET r == registry_callback(cb, node)
          IN  /\ pc' = IF r.panicked THEN "registry_panicked" ELSE "registry"
              /\ input' = [fn |-> cb, before |-> Self, faulting |-> {}]
              /\ output' = [self |-> Self, result |-> IF r.panicked THEN "panic" ELSE "Ok"]
    /\ UNCHANGED << env, lint_passes, invalid_lint_passes, libs, loadLog, registerCalls, diag,
                    hirItems, hirBodies, items, cursor, calls, trace, convVars,
                    debug_assertions, session, token_stream >>

call_for_each_lint_pass ==
    /\ pc = "registry"
    /\ \E faulting \in SUBSET { lint_passes[i].n : i \in 1..Len(lint_passes) } :
          LET r == for_each_lint_pass(Self, faulting)
          IN  /\ lint_passes' = r.self.lint_passes
              /\ invalid_lint_passes' = r.self.invalid_lint_passes
              /\ libs' = r.self.libs
              /\ pc' = IF r.panicked THEN "registry_panicked" ELSE "registry"
              /\ input' = [fn |-> "for_each_lint_pass", before |-> Self, faulting |-> faulting]
              /\ output' = [self |-> r.self, result |-> IF r.panicked THEN "panic" ELSE "Ok"]
    /\ UNCHANGED << env, loadLog, registerCalls, diag, hirItems, hirBodies, items, cursor,
                    calls, trace, convVars, debug_assertions, session, token_stream >>

InitRegistry ==
    /\ pc = "registry"
    /\ input = [fn |-> "default", before |-> EmptyRegistry, faulting |-> {}]
    /\ output = [self |-> EmptyRegistry, result |-> "Ok"]
    /\ token_stream = << >>
    /\ Fresh

NextRegistry ==
    \/ registry_load
    \/ registry_callback_call
    \/ call_for_each_lint_pass

SpecRegistry == InitRegistry /\ [][NextRegistry]_vars

(***************************************************************************)
(* Properties of the loader.                                               *)
(***************************************************************************)
\* What is on disk at a path, read without the loader.
Opens(path) == Len(path) = 1 /\ path[1] \in PathChars
HasDeclaration(path) == Opens(path) /\ path[1] \in {"a", "f", "g", "o", "r"}
VersionsMatch(path) == Opens(path) /\ path[1] \in {"a", "f", "g"}

\* C1: a load of a library whose declaration has another linter_api_version
\* or another rustc_version than the host returns IncompatibleVersion, does
\* not run the register entry point of the library and adds no pass to the
\* registry.
C1_MismatchNeverRegisters ==
    \A i \in 1..Len(loadLog) :
        LET e == loadLog[i]
        IN  (HasDeclaration(e.path) /\ ~VersionsMatch(e.path)) =>
                /\ e.result = "IncompatibleVersion"
                /\ e.after.lint_passes = e.before.lint_passes
                /\ e.path \notin Range(registerCalls)
                /\ \A j \in 1..Len(lint_passes) : << lint_passes[j].lib >> # e.path

C1_Witness ==
    /\ Len(loadLog) = 2
    /\ loadLog[1].result = "Ok"
    /\ loadLog[2].path \in { << "o" >>, << "r" >> }
    /\ loadLog[2].result = "IncompatibleVersion"
    /\ Len(loadLog[2].before.lint_passes) = 1

\* C4: new_from_env is all-or-nothing: when the load of a path of the list
\* fails, new_from_env panics with a message that names the path and the
\* error, and the adapter receives no registry, whatever was loaded before.
C4_AllOrNothing ==
    \A i \in 1..Len(loadLog) :
        loadLog[i].result # "Ok" =>
            /\ pc = "init_panic"
            /\ diag = << loadLog[i].path, loadLog[i].result >>
            /\ lint_passes = << >> /\ invalid_lint_passes = << >> /\ libs = << >>

C4_Witness ==
    /\ pc = "init_panic"
    /\ Len(loadLog) = 2
    /\ loadLog[1].result = "Ok"
    /\ Len(loadLog[2].before.lint_passes) = 1
    /\ diag = << << "n" >>, "MissingLintDeclaration" >>

\* C5: a load fails with FileNotFound when the library cannot be opened,
\* with MissingLintDeclaration when it opens and has no declaration symbol,
\* with IncompatibleVersion when the symbol is there and a version differs;
\* the first of the three checks that fails gives the error, and a load fails
\* in no other case.
C5_FirstFailingCheckDecides ==
    \A i \in 1..Len(loadLog) :
        LET e == loadLog[i]
        IN  e.result = ( IF ~Opens(e.path) THEN "FileNotFound"
                         ELSE IF ~HasDeclaration(e.path) THEN "MissingLintDeclaration"
                         ELSE IF ~VersionsMatch(e.path) THEN "IncompatibleVersion"
                         ELSE "Ok" )

C5_Witness ==
    /\ Len(loadLog) = 2
    /\ loadLog[1].result = "Ok"
    /\ loadLog[2].result = "FileNotFound"
    /\ loadLog[2].path = << >>

\* The registry holds the library of every pass it holds.
HoldsLibraries(registry) ==
    \A p \in Range(registry.lint_passes \o registry.invalid_lint_passes) :
        Cardinality({ i \in 1..Len(registry.libs) : registry.libs[i] = p.lib }) >=
        Cardinality({ q \in Range(registry.lint_passes \o registry.invalid_lint_passes) :
                        q.lib = p.lib })

\* C17: the registry retains the library handle of every pass it holds,
\* active or retired, one handle per load, and no load and no step of the
\* dispatch takes a handle away: the handles after a load are the handles
\* before it, followed by the one of a library that was loaded.
C17_LibrariesRetained ==
    /\ HoldsLibraries([lint_passes |-> lint_passes,
                       invalid_lint_passes |-> invalid_lint_passes, libs |-> libs])
    /\ \A i \in 1..Len(loadLog) :
          LET e == loadLog[i]
          IN  /\ HoldsLibraries(e.after)
              /\ IsPrefix(e.before.libs, e.after.libs)
              /\ e.result = "Ok" => e.after.libs = Append(e.before.libs, e.path[1])
    /\ pc \in {"ready", "process", "done", "panicked"} =>
          IF loadLog = << >> THEN libs = << >> ELSE libs = loadLog[Len(loadLog)].after.libs

C17_Witness ==
    /\ pc = "done"
    /\ Len(lint_passes) = 2
    /\ libs = << "a", "a" >>
    /\ Len(trace) > 2

(***************************************************************************)
(* Properties of the dispatch.                                             *)
(***************************************************************************)
AllPasses == lint_passes \o invalid_lint_passes

PassOf(n) == CHOOSE p \in Range(AllPasses) : p.n = n

ItemOf(ref) == CHOOSE it \in Range(items) : it.ref = ref

PosOf(ref) == CHOOSE i \in 1..Len(items) : items[i].ref = ref

\* The pass called at position j of the trace panicked in that call.
FaultAt(j) == pass_panics(PassOf(trace[j].pass), trace[j].cb, ItemOf(trace[j].item))

SessionOver == pc \in {"done", "panicked"}

Delivery(cb, n, ref) == [cb |-> cb, pass |-> n, item |-> ref]

\* C2: a pass that panicked while handling a node gets no further callback
\* in the session; with the passes [A, B], the items [X, Y] and A panicking
\* on X the passes are called as check_item(A, X), check_item(B, X),
\* check_item(B, Y).
C2_FaultingPassIsRetired ==
    /\ \A j \in 1..Len(trace) : \A k \in (j + 1)..Len(trace) :
          FaultAt(j) => trace[k].pass # trace[j].pass
    /\ ( /\ SessionOver
         /\ Len(AllPasses) = 2 /\ PassOf(1).lib = "f" /\ PassOf(2).lib = "a"
         /\ Len(items) = 2 /\ items[1].tag = "Fn" /\ items[2].tag = "Fn" )
       => trace = << Delivery("check_item", 1, items[1].ref),
                     Delivery("check_item", 2, items[1].ref),
                     Delivery("check_item", 2, items[2].ref) >>

\* C3: a panic of a pass does not leave process_krate: process_krate runs to
\* its end, and the passes behind the panicking one are still called with
\* the callback the panic happened in.
C3_FaultNeverEscapes ==
    /\ pc # "panicked"
    /\ \A j \in 1..Len(trace) :
          FaultAt(j) =>
            \A p \in Range(AllPasses) :
                p.n > trace[j].pass =>
                    \E k \in (j + 1)..Len(trace) :
                        trace[k] = Delivery(trace[j].cb, p.n, trace[j].item)

\* The callbacks of one item, as the dispatch is described: check_attr for
\* each attribute, check_item, then the callback of the kind if it has one.
CallsOfItem(it) ==
    [k \in 1..get_attrs(the_krate, it) |-> [cb |-> "check_attr", item |-> it.ref, k |-> k]]
    \o << [cb |-> "check_item", item |-> it.ref, k |-> 0] >>
    \o ( IF it.tag \in {"Mod", "ExternCrate", "Use", "Static"}
         THEN << [cb |-> CASE it.tag = "Mod" -> "check_mod"
                           [] it.tag = "ExternCrate" -> "check_extern_crate"
                           [] it.tag = "Use" -> "check_use_decl"
                           [] it.tag = "Static" -> "check_static_item",
                  item |-> it.ref, k |-> 0] >>
         ELSE << >> )

RECURSIVE ExpectedCallsFrom(_)
ExpectedCallsFrom(i) ==
    IF i > Len(items) THEN << >> ELSE CallsOfItem(items[i]) \o ExpectedCallsFrom(i + 1)

ExpectedCalls == ExpectedCallsFrom(1)

\* C6: for every item of the crate process_krate issues the attribute
\* callback for each attribute, then the item callback, then the one
\* callback of the item's kind (module, extern crate, use declaration,
\* static) and none for another kind.
C6_CallbacksOfEveryItem ==
    /\ IsPrefix(calls, ExpectedCalls)
    /\ SessionOver => calls = ExpectedCalls

\* Every pass of the list, in the order of the list, for one callback.
ToEveryPass(c) == [n \in 1..Len(lint_passes) |-> Delivery(c.cb, lint_passes[n].n, c.item)]

RECURSIVE DeliveriesFrom(_)
DeliveriesFrom(i) ==
    IF i > Len(calls) THEN << >> ELSE ToEveryPass(calls[i]) \o DeliveriesFrom(i + 1)

\* C7: every callback issued for a node (attribute, item, module, extern
\* crate, use declaration, static item) is delivered once to every pass that
\* is not retired, in the order of registration. Stated of the sessions in
\* which no pass panics.
C7_EveryCallbackToEveryPass ==
    pc \in {"process", "done"} => trace = DeliveriesFrom(1)

\* The callbacks the registry forwards to the passes.
Forwarded(cb) == cb \in {"check_item", "check_mod", "check_extern_crate", "check_use_decl"}

RECURSIVE ForwardedFrom(_)
ForwardedFrom(i) ==
    IF i > Len(ExpectedCalls) THEN << >>
    ELSE ( IF Forwarded(ExpectedCalls[i].cb) THEN ToEveryPass(ExpectedCalls[i]) ELSE << >> )
         \o ForwardedFrom(i + 1)

OwnerIndex(it) == converter.arena[it.ref].id[2][1]

\* C8: the dispatch is sequential in declaration order and deterministic:
\* the items of the crate are in the order of their declaration, every
\* callback about an item comes before every callback about a later item,
\* and the sequence of the calls is a function of the items and the passes.
C8_DeclarationOrder ==
    /\ \A i \in 1..Len(items) : \A j \in (i + 1)..Len(items) :
          OwnerIndex(items[i]) < OwnerIndex(items[j])
    /\ \A j \in 1..Len(trace) : \A k \in (j + 1)..Len(trace) :
          PosOf(trace[j].item) <= PosOf(trace[k].item)
    /\ \A j \in 1..Len(calls) : \A k \in (j + 1)..Len(calls) :
          PosOf(calls[j].item) <= PosOf(calls[k].item)
    /\ IsPrefix(trace, ForwardedFrom(1))
    /\ pc = "done" => trace = ForwardedFrom(1)

C8_Witness ==
    /\ pc = "done"
    /\ Len(lint_passes) = 2
    /\ Len(hirItems) = 2 /\ Len(items) = 2
    /\ items[1].tag = "Mod" /\ items[2].tag = "Use"
    /\ Len(trace) = 8
    /\ Len(calls) > 4

\* C9: two loads of the same lint crate register two passes (the registry
\* does not de-duplicate), and each of the two is called with every callback
\* that is dispatched.
C9_TwoInstances ==
    \A i \in 1..Len(loadLog) : \A j \in (i + 1)..Len(loadLog) :
        ( /\ loadLog[i].path = loadLog[j].path
          /\ loadLog[i].result = "Ok" /\ loadLog[j].result = "Ok"
          /\ pc \in {"ready", "process", "done", "panicked"} )
        => LET twins == { n \in 1..Len(lint_passes) : << lint_passes[n].lib >> = loadLog[i].path }
           IN  /\ Cardinality(twins) >= 2
               /\ \A c \in 1..Len(calls) : \A n \in twins :
                     \E k \in 1..Len(trace) :
                         trace[k] = Delivery(calls[c].cb, lint_passes[n].n, calls[c].item)

(***************************************************************************)
(* Properties of the conversion.                                           *)
(***************************************************************************)
\* C10: the conversions of one item in one session return the same node,
\* by whichever function the item is reached, and no more than one node is
\* allocated for an item id.
C10_OneNodePerItem ==
    /\ \A p \in returned : \A q \in returned :
          (p[1][1] = "ItemId" /\ p[1] = q[1]) => p[2] = q[2]
    /\ \A i \in 1..Len(converter.arena) : \A j \in 1..Len(converter.arena) :
          ( /\ converter.arena[i].id[1] = "ItemId"
            /\ converter.arena[i].id = converter.arena[j].id ) => i = j

C10_Witness ==
    /\ last.fn = "to_item_from_id"
    /\ last.some /\ last.allocs = 0
    /\ Len(last.owner) = 2
    /\ \E p \in returned : p[1] = to_item_id(last.owner)
    /\ \E i \in 1..Len(converter.arena) :
          converter.arena[i].kind = "Trait" \/ converter.arena[i].kind = "Mod"

\* C11: converting the same body twice in one session returns the same Body
\* node, whatever the kind of the body: the first conversion inserts the
\* body into the cache of the bodies under its id, and a conversion of a
\* body that was converted before allocates nothing.
C11_BodyConvertedOnce ==
    /\ \A p \in returned : \A q \in returned :
          (p[1][1] = "BodyId" /\ p[1] = q[1]) => p[2] = q[2]
    /\ (last.fn = "to_body" /\ ~last.panicked) =>
          to_body_id(last.owner[1]) \in DOMAIN converter.bodies
    /\ (last.fn = "to_body" /\ last.again) => last.allocs = 0

\* The model has no node for the item: an opaque type, a trait alias, an
\* extern block with a foreign type.
Unsupported(rustc_item) ==
    \/ rustc_item.kind \in {"OpaqueTy", "TraitAlias"}
    \/ /\ rustc_item.kind = "ForeignMod"
       /\ \E i \in 1..Len(rustc_item.sub) : rustc_item.sub[i].kind = "Type"

\* C12: a construct the model cannot represent does not make the conversion
\* panic: an opaque type and a trait alias convert into an unstable item
\* with a reason, an extern block with a foreign type converts into a node,
\* and generic arguments with a const, an inferred argument, a const
\* binding or a constraint convert into generic arguments.
C12_UnsupportedNeverPanics ==
    /\ last.fn \in {"to_item", "to_item_from_id"} =>
          LET rustc_item == hir_item(hirItems, last.owner)
          IN  (Unsupported(rustc_item) /\ ~is_compiler_generated(rustc_item.ctxt)) =>
                 /\ ~last.panicked
                 /\ last.some
                 /\ rustc_item.kind \in {"OpaqueTy", "TraitAlias"} =>
                       LET node == converter.arena[converter.items[to_item_id(last.owner)].ref]
                       IN  node.kind = "Unstable" /\ node.reason # ""
    /\ pc = "returned" => ~output.panicked

\* The span of the item comes from an expansion the compiler made itself.
CompilerGenerated(rustc_item) == rustc_item.ctxt.expn_kind = "AstPass"

\* C13: to_item returns no node for an item if and only if the item is
\* compiler-generated and its span is not in the root expansion context;
\* every item whose span is in the root expansion context is kept.
C13_DroppedIffCompilerGenerated ==
    (last.fn \in {"to_item", "to_item_from_id"} /\ ~last.panicked) =>
        LET rustc_item == hir_item(hirItems, last.owner)
        IN  /\ ~last.some <=> (CompilerGenerated(rustc_item) /\ ~rustc_item.ctxt.is_root)
            /\ rustc_item.ctxt.is_root => last.some

(***************************************************************************)
(* Properties of the token stream.                                         *)
(***************************************************************************)
\* C14: over the calls of as_proc_macro2_repr on one token stream the parse
\* runs at most once, in the first call; every call returns what that parse
\* gave, also when it failed.
C14_ParsedAtMostOnce ==
    pc = "token_stream" =>
        /\ Cardinality({ i \in 1..Len(output) : output[i].parsed }) <= 1
        /\ \A i \in 1..Len(output) :
              /\ output[i].parsed <=> i = 1
              /\ output[i].result = from_str(input)

C14_Witness ==
    /\ pc = "token_stream"
    /\ Len(output) = 3
    /\ output[1].parsed /\ ~output[1].result.ok
    /\ ~output[3].parsed /\ ~output[3].result.ok
    /\ Len(input) > 1

(***************************************************************************)
(* Properties of the kinds of expressions.                                 *)
(***************************************************************************)
\* The variant of LitExprKind of a variant of ExprKind.
LitVariantOf(variant) ==
    CASE variant = "IntLit" -> "Int"
      [] variant = "FloatLit" -> "Float"
      [] variant = "StrLit" -> "Str"
      [] variant = "CharLit" -> "Char"
      [] variant = "BoolLit" -> "Bool"
      [] OTHER -> variant

\* C15: the round trip of the narrowing. A value L of LitExprKind
\* (output[2].value) widened with ExprKind::from (output[3]) narrows again
\* (output[4]) to L: the same variant with the same node; and an ExprKind E
\* (output[1]) whose narrowing succeeds is what the widening of the result
\* gives.
C15_RoundTrip ==
    pc = "kinds" =>
        /\ Len(output) >= 3 => output[3] = output[1]
        /\ Len(output) >= 4 =>
              /\ output[4].ok
              /\ output[4].value = output[2].value
              /\ output[4].value.variant = LitVariantOf(output[1].variant)
              /\ output[4].value.node = input

C15_Witness ==
    /\ pc = "kinds"
    /\ Len(output) = 4
    /\ output[4].ok
    /\ output[4].value.variant = "UnaryOp"
    /\ input.operand[1].variant = "FloatLit"

(***************************************************************************)
(* Properties of the launcher.                                             *)
(***************************************************************************)
\* C16: the value the launcher starts the driver with is the paths of the
\* built libraries joined by ";" in the order of the lint crates, no path
\* that is joined holds a ";", and the split on ";" of the loader gives the
\* list of the paths back.
C16_JoinedPathsSplitBack ==
    (pc = "returned" /\ output.status = "Ok") =>
        /\ Len(output.lint_crates) = Len(choose_lint_crates(input.lints, input.config).paths)
        /\ output.MARKER_LINT_CRATES = join(output.lint_crates, Delim)
        /\ \A i \in 1..Len(output.lint_crates) : ~contains(output.lint_crates[i], ";")
        /\ split(output.MARKER_LINT_CRATES) = output.lint_crates

(***************************************************************************)
(* Properties of the sessions.                                             *)
(***************************************************************************)
RECURSIVE ValidPath(_, _)
ValidPath(rustc_items, path) ==
    /\ path # << >>
    /\ path[1] \in 1..Len(rustc_items)
    /\ Len(path) = 1 \/ ValidPath(rustc_items[path[1]].sub, Tail(path))

NoEntry(cx) ==
    /\ DOMAIN cx.items = {} /\ DOMAIN cx.bodies = {}
    /\ DOMAIN cx.fields = {} /\ DOMAIN cx.variants = {}
    /\ cx.arena = << >>

\* The node was made from an entity of the crate of this session.
OfThisCrate(node) ==
    IF node.id[1] \in {"BodyId", "ExprId"}
    THEN node.id[2] \in 1..Len(hirBodies)
    ELSE /\ ValidPath(hirItems, node.id[2])
         /\ node.kind = ( LET kind == hir_item(hirItems, node.id[2]).kind
                          IN  CASE kind = "Variant" -> "EnumVariant"
                                [] kind = "ForeignMod" -> "ExternBlock"
                                [] OTHER -> kind )

\* C18: after the teardown of a session no node and no cache entry of it
\* is left; the next session starts with empty caches of the items, the
\* bodies, the fields and the variants and with an empty arena, and what
\* it holds later was made from its own crate, under ids and references
\* that do not continue the ones of the session before.
C18_FreshSession ==
    /\ pc = "torn_down" => (NoEntry(converter) /\ returned = {})
    /\ last.fn = "new_session" => (NoEntry(converter) /\ returned = {})
    /\ pc = "conv" =>
          /\ \A i \in 1..Len(converter.arena) : OfThisCrate(converter.arena[i])
          /\ \A id \in DOMAIN converter.items : converter.arena[converter.items[id].ref].id = id
          /\ \A id \in DOMAIN converter.bodies : converter.arena[converter.bodies[id].ref].id = id
          /\ \A id \in DOMAIN converter.fields : converter.arena[converter.fields[id]].id = id
          /\ \A id \in DOMAIN converter.variants : converter.arena[converter.variants[id]].id = id
          /\ \A p \in returned : converter.arena[p[2]].id = p[1]

C18_Witness ==
    /\ session = 2
    /\ last.fn = "new_session"
    /\ last.allocs >= 4
    /\ hirItems[1].kind = "Fn"
    /\ Len(hirBodies) = 2

(***************************************************************************)
(* Properties of the extern crate items.                                   *)
(***************************************************************************)
\* What the getter fn returned, when both getters were called.
NameFrom(fn) == (CHOOSE r \in Range(output.names) : r.fn = fn).ret

BothNames == pc = "extern_crate_item" /\ Len(output.names) = 2

\* C19, as stated: get_crate_name returns the name of the crate, get_name
\* the local name; the two are equal without alias and differ exactly when
\* an alias is declared.
C19_DifferExactlyWithAlias ==
    BothNames =>
        /\ NameFrom("get_crate_name") = to_symbol_id(input.crate)
        /\ NameFrom("get_name") =
              to_symbol_id(IF input.alias.some THEN input.alias.name ELSE input.crate)
        /\ (NameFrom("get_name") # NameFrom("get_crate_name")) <=> input.alias.some

\* C19, amended: get_crate_name returns the name of the crate, get_name the
\* local name (the alias when there is one); the two are equal without
\* alias, and differ exactly when an alias is declared that is not the
\* name of the crate itself.
C19_DifferExactlyWithOtherName ==
    BothNames =>
        /\ NameFrom("get_crate_name") = to_symbol_id(input.crate)
        /\ NameFrom("get_name") =
              to_symbol_id(IF input.alias.some THEN input.alias.name ELSE input.crate)
        /\ ~input.alias.some => NameFrom("get_name") = NameFrom("get_crate_name")
        /\ (NameFrom("get_name") # NameFrom("get_crate_name")) <=>
              (input.alias.some /\ input.alias.name # input.crate)

C19_Witness ==
    /\ BothNames
    /\ input.alias.some
    /\ input.alias.name # input.crate
    /\ NameFrom("get_name") = to_symbol_id(input.alias.name)
    /\ NameFrom("get_crate_name") = to_symbol_id(input.crate)

(***************************************************************************)
(* Properties of the conversion of attributes.                             *)
(***************************************************************************)
\* C20: the input of a converted attribute is AttrInput::None for an
\* attribute without input, AttrInput::Expr for one with `= value` and
\* AttrInput::DelimTokenTree for one with a delimited token tree.
C20_InputClassified ==
    (pc = "returned" /\ input.kind = "Normal") =>
        output.input.variant =
            ( CASE input.args = "Empty" -> "None"
                [] input.args \in {"Eq_Str", "Eq_Int"} -> "Expr"
                [] input.args = "Delimited" -> "DelimTokenTree" )

(***************************************************************************)
(* Properties of the driver's command line.                                *)
(*                                                                         *)
(* The occurrences of an option are read from left to right: an argument   *)
(* that is the option alone takes the argument after it as its value, and  *)
(* an argument taken as a value is no occurrence of its own.               *)
(***************************************************************************)
RECURSIVE IsOccurrence(_, _, _)
IsOccurrence(args, find_arg, i) ==
    /\ i \in 1..Len(args)
    /\ \/ args[i] = find_arg
       \/ /\ Len(args[i]) > Len(find_arg)
          /\ SubSeq(args[i], 1, Len(find_arg)) = find_arg
          /\ args[i][Len(find_arg) + 1] = "="
    /\ ~(i > 1 /\ args[i - 1] = find_arg /\ IsOccurrence(args, find_arg, i - 1))

\* The value of the occurrence at i: what follows the "=", or the next
\* argument.
HasValue(args, find_arg, i) == args[i] # find_arg \/ i < Len(args)

ValueAt(args, find_arg, i) ==
    IF args[i] # find_arg
    THEN SubSeq(args[i], Len(find_arg) + 2, Len(args[i]))
    ELSE args[i + 1]

Satisfying(args, find_arg, pred) ==
    { i \in 1..Len(args) :
        /\ IsOccurrence(args, find_arg, i)
        /\ HasValue(args, find_arg, i)
        /\ apply(pred, ValueAt(args, find_arg, i)) }

\* C21: arg_value returns the value of the first occurrence of find_arg,
\* written `find_arg=value` or `find_arg value`, whose value satisfies
\* pred, and None exactly when no occurrence has such a value.
C21_FirstSatisfyingValue ==
    pc = "returned" =>
        LET sat == Satisfying(input.args, input.find_arg, input.pred)
        IN  IF sat = {}
            THEN output = NoValue
            ELSE LET first == CHOOSE i \in sat : \A j \in sat : i <= j
                 IN  output = SomeValue(ValueAt(input.args, input.find_arg, first))

\* An occurrence whose value fails pred is passed over and the value of a
\* later occurrence, written with a space, is returned.
C21_Witness ==
    /\ pc = "returned"
    /\ input.args = << << "--foo", "=", "y" >>, << "--foo" >>, << "x" >> >>
    /\ input.find_arg = << "--foo" >>
    /\ input.pred.kind = "eq"
    /\ output = SomeValue(<< "x" >>)

(***************************************************************************)
(* Properties of the driver's decision to enable Marker.                   *)
(***************************************************************************)
\* Marker is enabled: the lint crates of the environment are given to the
\* callbacks that load them and register the lint pass, and the marker
\* cfg and crate-attr arguments are among the compiler's arguments.
MarkerEnabled ==
    /\ output.outcome = "RunCompiler"
    /\ output.callbacks = "MarkerCallback"
    /\ output.register_lints
    /\ output.lint_crates = list_from_env(input.env).crates
    /\ \E i \in 1..Len(output.args) : output.args[i] = << "--cfg", "=", "marker" >>
    /\ \E i \in 1..Len(output.args) :
           output.args[i] = << "-Zcrate-attr", "=", "register_tool(marker)" >>

\* The plain compiler is run and no lint crate is loaded.
PlainCompiler ==
    /\ output.outcome = "RunCompiler"
    /\ output.callbacks = "DefaultCallbacks"
    /\ ~output.register_lints
    /\ output.lint_crates = << >>
    /\ \A i \in 1..Len(output.args) : output.args[i] # << "--cfg", "=", "marker" >>

\* Lints are capped to allow in args: a `--cap-lints allow` and no
\* --force-warn (with a value, when with_value is asked for).
CappedToAllow(args, with_value) ==
    /\ Satisfying(args, << "--cap-lints" >>, [kind |-> "eq", val |-> << "allow" >>]) # {}
    /\ ~\E i \in 1..Len(args) :
           /\ IsOccurrence(args, << "--force-warn" >>, i)
           /\ with_value => HasValue(args, << "--force-warn" >>, i)

ShouldEnable(args, e, with_value) ==
    /\ ~CappedToAllow(args, with_value)
    /\ \/ \A i \in 1..Len(args) : args[i] # << "--no-deps" >>
       \/ e.CARGO_PRIMARY_PACKAGE

HasRustc(args) == \E i \in 1..Len(args) : args[i] = << "--rustc" >>

\* The arguments without their first --rustc.
WithoutRustc(args) ==
    LET p == CHOOSE i \in 1..Len(args) :
                 /\ args[i] = << "--rustc" >>
                 /\ \A j \in 1..(i - 1) : args[j] # << "--rustc" >>
    IN  [i \in 1..(Len(args) - 1) |-> IF i < p THEN args[i] ELSE args[i + 1]]

\* The --sysroot the driver adds from MARKER_SYSROOT, if it adds one.
SysrootSuffixes(e) ==
    { << >> } \cup
    IF e.MARKER_SYSROOT.some
    THEN { << << "--sysroot" >>, e.MARKER_SYSROOT.value >> }
    ELSE {}

\* C27: with --rustc among the arguments, wherever it stands, that
\* argument is removed, argument 0 becomes "rustc", the remaining
\* arguments go to the plain compiler, and --version, --toolchain and
\* --help are not handled by the driver and no lint crate is loaded.
C27_RustcPassesThrough ==
    (pc = "returned" /\ HasRustc(input.args)) =>
        /\ output.outcome = "RunCompiler"
        /\ output.callbacks = "DefaultCallbacks"
        /\ ~output.register_lints
        /\ output.lint_crates = << >>
        /\ \E suffix \in SysrootSuffixes(input.env) :
               output.args =
                   [WithoutRustc(input.args) EXCEPT ![1] = << "rustc" >>] \o suffix

\* --rustc stands after --version and --version is passed on to rustc.
C27_Witness ==
    /\ pc = "returned"
    /\ input.args = << << "marker_rustc_driver" >>, << "--version" >>, << "--rustc" >> >>
    /\ output.outcome = "RunCompiler"
    /\ output.args = << << "rustc" >>, << "--version" >> >>

(***************************************************************************)
(* Properties of a failing load.                                           *)
(***************************************************************************)
\* C28: a load that fails, with whichever of the three errors, leaves the
\* registry as it was: the active passes, the retired passes and the
\* retained libraries after the call are those before it.
C28_FailedLoadChangesNothing ==
    \A i \in 1..Len(loadLog) :
        loadLog[i].result \in {"FileNotFound", "MissingLintDeclaration", "IncompatibleVersion"} =>
            /\ loadLog[i].after.lint_passes = loadLog[i].before.lint_passes
            /\ loadLog[i].after.invalid_lint_passes = loadLog[i].before.invalid_lint_passes
            /\ loadLog[i].after.libs = loadLog[i].before.libs

\* A load fails on a version mismatch in a registry that holds a pass.
C28_Witness ==
    /\ Len(loadLog) = 2
    /\ loadLog[1].result = "Ok"
    /\ loadLog[2].result = "IncompatibleVersion"
    /\ Len(loadLog[2].before.lint_passes) = 1
    /\ loadLog[2].after = loadLog[2].before

(***************************************************************************)
(* Properties of the retirement of passes.                                 *)
(***************************************************************************)
\* The passes of list whose number is (not) in the set, in their order.
RECURSIVE Keep(_, _, _)
Keep(list, ns, in) ==
    IF list = << >> THEN << >>
    ELSE IF (Head(list).n \in ns) = in
    THEN << Head(list) >> \o Keep(Tail(list), ns, in)
    ELSE Keep(Tail(list), ns, in)

\* C23: after for_each_lint_pass the retired set has gained exactly the
\* passes whose call faulted on the node and the active list is the
\* previously active passes that did not fault, in their order, for any
\* number of faulting passes; the operation itself never faults.
C23_ExactlyTheFaultingRetired ==
    input.fn = "for_each_lint_pass" =>
        /\ output.result = "Ok"
        /\ lint_passes = Keep(input.before.lint_passes, input.faulting, FALSE)
        /\ Range(invalid_lint_passes) =
               Range(input.before.invalid_lint_passes)
               \cup Range(Keep(input.before.lint_passes, input.faulting, TRUE))

(***************************************************************************)
(* Properties of the pass population of the registry.                      *)
(***************************************************************************)
Numbers(list) == { list[i].n : i \in 1..Len(list) }

\* Active and retired passes are disjoint, hold no pass twice and together
\* hold every pass that was registered.
Partitioned ==
    /\ Cardinality(Numbers(lint_passes)) = Len(lint_passes)
    /\ Cardinality(Numbers(invalid_lint_passes)) = Len(invalid_lint_passes)
    /\ Numbers(lint_passes) \cap Numbers(invalid_lint_passes) = {}
    /\ Numbers(lint_passes) \cup Numbers(invalid_lint_passes) = 1..Len(registerCalls)

\* A step changes the passes only when it is a load or a retirement, and
\* a retirement only moves passes from the active list to the retired ones.
PopulationStep ==
    /\ (lint_passes' # lint_passes \/ invalid_lint_passes' # invalid_lint_passes) =>
           input'.fn \in {"load_external_lib", "for_each_lint_pass"}
    /\ (input' # input /\ input'.fn = "for_each_lint_pass") =>
           /\ Range(lint_passes') \cup Range(invalid_lint_passes')
                  = Range(lint_passes) \cup Range(invalid_lint_passes)
           /\ Range(lint_passes') \subseteq Range(lint_passes)
           /\ Range(invalid_lint_passes) \subseteq Range(invalid_lint_passes')

\* C24: the pass population changes only through load and retirement: the
\* callbacks of the dispatch never add, drop or duplicate a pass, a
\* retirement only moves passes from the active list to the retired set,
\* and at every point the two are disjoint and hold every registered pass.
C24_PopulationPreserved == []Partitioned /\ [][PopulationStep]_vars

\* A callback is dispatched in a registry with an active and a retired
\* pass.
C24_Witness ==
    /\ pc = "registry"
    /\ input.fn = "check_item"
    /\ Len(lint_passes) = 1
    /\ Len(invalid_lint_passes) = 2

(***************************************************************************)
(* Properties of the narrowing of expression kinds.                        *)
(***************************************************************************)
\* A literal: one of the five literal kinds, or the negation of a literal.
RECURSIVE IsLiteral(_)
IsLiteral(expr) ==
    \/ expr.variant \in {"IntLit", "FloatLit", "StrLit", "CharLit", "BoolLit"}
    \/ /\ expr.variant = "UnaryOp"
       /\ expr.node.kind = "Neg"
       /\ IsLiteral(expr.node.operand[1])

\* C25: narrowing an ExprKind to LitExprKind succeeds exactly for the five
\* literal kinds and for a negation whose operand itself narrows; it
\* fails for every other kind, a non-negation unary operation on a literal
\* and a negation of a non-literal included.
C25_NarrowsExactlyLiterals ==
    (pc = "kinds" /\ Len(output) >= 2) =>
        /\ output[2].ok <=> IsLiteral(output[1])
        /\ output[2].ok => output[2].value.node = input
        /\ ~output[2].ok => output[2] = Err

\* `!1` is not narrowed although its operand is a literal.
C25_Witness ==
    /\ pc = "kinds"
    /\ Len(output) >= 2
    /\ input.enum_name = "UnaryOp"
    /\ input.kind = "Not"
    /\ input.operand[1].variant = "IntLit"
    /\ ~output[2].ok

(***************************************************************************)
(* Properties of the launcher's check command.                             *)
(***************************************************************************)
\* The lint crates that are given: those of --lints when there are any
\* --lints arguments, those of the configuration otherwise.
GivenLintCrates ==
    IF input.lints.some THEN input.lints.value
    ELSE IF input.config.some THEN input.config.value.lints
    ELSE << >>

\* A configuration that cannot be used is read when there is no --lints.
BadConfigurationRead ==
    ~input.lints.some /\ input.config.some /\ ~input.config.value.valid

NothingBuiltNorRun ==
    /\ output.lint_crates = << >>
    /\ output.MARKER_LINT_CRATES = << >>
    /\ output.driver = "none"

InstallFailed ==
    /\ input.dev_build
    /\ input.e.install_driver # "Ok"
    /\ output.status = input.e.install_driver

KeysMatch(cx) ==
    /\ \A id \in DOMAIN cx.items : cx.arena[cx.items[id].ref].id = id
    /\ \A id \in DOMAIN cx.bodies : cx.arena[cx.bodies[id].ref].id = id
    /\ \A id \in DOMAIN cx.fields : cx.arena[cx.fields[id]].id = id
    /\ \A id \in DOMAIN cx.variants : cx.arena[cx.variants[id]].id = id

\* The entries of the cache before are entries of the cache after.
Kept(old, new) ==
    \A id \in DOMAIN old : id \in DOMAIN new /\ new[id] = old[id]

\* Within a session no entry is removed or replaced and no node changes;
\* a call of to_item that returns None leaves the four caches alone.
CachesStep ==
    /\ pc' # "torn_down" =>
           /\ Kept(converter.items, converter'.items)
           /\ Kept(converter.bodies, converter'.bodies)
           /\ Kept(converter.fields, converter'.fields)
           /\ Kept(converter.variants, converter'.variants)
           /\ IsPrefix(converter.arena, converter'.arena)
    /\ (last'.fn \in {"to_item", "to_item_from_id"} /\ ~last'.some /\ ~last'.panicked) =>
           /\ converter'.items = converter.items
           /\ converter'.bodies = converter.bodies
           /\ converter'.fields = converter.fields
           /\ converter'.variants = converter.variants

RECURSIVE ConvertibleBounds(_)
ConvertibleBounds(bounds) ==
    IF bounds = << >> THEN << >>
    ELSE ( IF to_lifetime(Head(bounds).lifetime).some
           THEN << Lifetime_new(Head(bounds).lifetime) >>
           ELSE << >> ) \o ConvertibleBounds(Tail(bounds))

\* The lifetime predicate of the generics and the clause made from it.
ThePredicate == input.predicates[Len(input.predicates)]
TheClause == output.clauses[Len(output.clauses)]

\* C30: the LifetimeClause of a lifetime predicate `'a: 'b + 'c` has as
\* its bounds exactly the outlives bounds to_lifetime converts, in source
\* order; the bounds are empty only when no bound is convertible.
C30_BoundsOfLifetimeClause ==
    (pc = "returned" /\ to_lifetime(ThePredicate.lifetime).some) =>
        /\ ~output.panicked
        /\ TheClause.kind = "Lifetime"
        /\ TheClause.bounds = ConvertibleBounds(ThePredicate.bounds)

====
